---- MODULE Spec2Model ----
(***************************************************************************)
(* A model of the JSON5 scanner of node-json5-parser.                      *)
(*                                                                         *)
(*  - createScanner (src/impl/scanner.ts): the stateful token cursor with  *)
(*    the combinators and productions it defines for itself.  A text is a  *)
(*    sequence of UTF-16 code units (integers); a scan result carries the  *)
(*    matched lexeme (or the input consumed before a failure).             *)
(*  - the grammar module (src/impl/grammar.ts): pure matchers whose result *)
(*    carries a length, line break counters and a syntax kind.             *)
(*                                                                         *)
(* Only code units of the Basic Multilingual Plane are modelled, so every  *)
(* source character is one code unit long.                                 *)
(***************************************************************************)
EXTENDS Integers, Sequences, FiniteSets, TLC

VARIABLES
    text,                      \* the scanned text (fixed per behaviour)
    ignoreTrivia,              \* createScanner's second argument
    pos, value, tokenOffset, token, lineNumber, lineStartOffset,
    tokenLineStartOffset, prevTokenLineStartOffset, scanError,
    threw,                     \* an exception left a public entry point
    lastOp,                    \* the public entry point called last
    startPos,                  \* the position that call started from
    returned,                  \* the tokens scan() has returned since the last setPosition
    setPositions,              \* the number of setPosition calls so far
    production, startOffset, result,  \* last application of a grammar.ts matcher
    scanners,                  \* the scanners a combinator was applied to
    disallowComments,          \* ParseOptions.disallowComments
    called,                    \* the entry point of the parser that was called
    events,                    \* the callbacks of the visitor, in the order of the calls
    errors,                    \* the errors the entry point collected
    parsedValue,               \* the value parse returned
    tree                       \* the nodes parseTree built and their root

vars == <<text, ignoreTrivia, pos, value, tokenOffset, token, lineNumber,
          lineStartOffset, tokenLineStartOffset, prevTokenLineStartOffset,
          scanError, threw, lastOp, startPos, returned, setPositions,
          production, startOffset, result, scanners,
          disallowComments, called, events, errors, parsedValue, tree>>

scannerVars == <<pos, value, tokenOffset, token, lineNumber,
          lineStartOffset, tokenLineStartOffset, prevTokenLineStartOffset,
          scanError, threw, lastOp, startPos, returned, setPositions>>

grammarVars == <<production, startOffset, result, scanners>>

parserVars == <<disallowComments, called, events, errors, parsedValue, tree>>

-----------------------------------------------------------------------------
(* SyntaxKind and ScanError (main.ts) *)

Unknown == 0
EOF == 1
OpenBraceToken == 2
CloseBraceToken == 3
OpenBracketToken == 4
CloseBracketToken == 5
CommaToken == 6
ColonToken == 7
NullKeyword == 8
TrueKeyword == 9
FalseKeyword == 10
StringLiteral == 11
NumericLiteral == 12
Identifier == 13
InfinityKeyword == 14
NaNKeyword == 15
LineCommentTrivia == 16
BlockCommentTrivia == 17
LineBreakTrivia == 18
Trivia == 19

None == 0
UnexpectedEndOfComment == 1
UnexpectedEndOfString == 2

(* CharacterCodes (scanner.ts) *)

lineFeed == 10
carriageReturn == 13
lineSeparator == 8232
paragraphSeparator == 8233
space == 32
nonBreakingSpace == 160
enQuad == 8192
zeroWidthSpace == 8203
narrowNoBreakSpace == 8239
ideographicSpace == 12288
mathematicalSpace == 8287
ogham == 5760
byteOrderMark == 65279
tab == 9
verticalTab == 11
formFeed == 12
asterisk == 42
backslash == 92
closeBrace == 125
closeBracket == 93
colon == 58
comma == 44
dot == 46
doubleQuote == 34
minus == 45
openBrace == 123
openBracket == 91
plus == 43
singleQuote == 39
slash == 47
char0 == 48
char9 == 57

-----------------------------------------------------------------------------
(* Strings as sequences of code units *)

substring(input, n) == SubSeq(input, n + 1, Len(input))

prefix(input, n) == SubSeq(input, 1, n)

startsWith(input, t) ==
    /\ Len(t) <= Len(input)
    /\ \A i \in 1..Len(t) : input[i] = t[i]

\* JavaScript's relational comparison of two strings: code unit by code unit.
stringGE(a, b) ==
    LET n == IF Len(a) < Len(b) THEN Len(a) ELSE Len(b)
        d == {i \in 1..n : a[i] # b[i]}
    IN  IF d = {} THEN Len(a) >= Len(b)
        ELSE LET i == CHOOSE j \in d : \A k \in d : j <= k IN a[i] > b[i]

Min(a, b) == IF a < b THEN a ELSE b

-----------------------------------------------------------------------------
(* scanner.ts: scan results and combinators local to createScanner *)

ScanSuccess(lexeme) == [kind |-> "success", lexeme |-> lexeme]

ScanFailure(consumed) == [kind |-> "failure", consumed |-> consumed]

scanIsSuccess(r) == r.kind = "success"

scanIsFailure(r) == r.kind = "failure"

scanLiteral(t, input) ==
    IF startsWith(input, t) THEN ScanSuccess(t) ELSE ScanFailure(<<>>)

\* match(pattern) for the patterns of the grammar: one character of a class.
scanMatch(pattern(_), input) ==
    IF Len(input) > 0 /\ pattern(input[1])
    THEN ScanSuccess(<<input[1]>>) ELSE ScanFailure(<<>>)

scanCombineAnd(firstResult, secondResult) ==
    IF scanIsFailure(firstResult) /\ scanIsFailure(secondResult)
    THEN ScanFailure(firstResult.consumed \o secondResult.consumed)
    ELSE IF scanIsFailure(firstResult) THEN firstResult
    ELSE IF scanIsFailure(secondResult)
    THEN ScanFailure(firstResult.lexeme \o secondResult.consumed)
    ELSE ScanSuccess(firstResult.lexeme \o secondResult.lexeme)

scanCombineOr(firstResult, secondResult) ==
    IF scanIsFailure(firstResult) /\ scanIsFailure(secondResult)
    THEN IF stringGE(firstResult.consumed, secondResult.consumed)
         THEN firstResult ELSE secondResult
    ELSE IF scanIsFailure(secondResult) THEN firstResult
    ELSE IF scanIsFailure(firstResult) THEN secondResult
    ELSE IF Len(firstResult.lexeme) > Len(secondResult.lexeme) THEN firstResult
    ELSE secondResult

\* and(first, second): the loop of scanAnd for one further scanner.
scanAnd(first(_), second(_), input) ==
    LET r == first(input)
    IN  IF scanIsFailure(r) THEN r
        ELSE scanCombineAnd(r, second(substring(input, Len(r.lexeme))))

\* and(a, b, c, ...): each pass of the loop combines the result so far with
\* the next scanner applied behind it.
scanAnd3(a(_), b(_), c(_), input) ==
    scanAnd(LAMBDA x : scanAnd(a, b, x), c, input)

scanAnd4(a(_), b(_), c(_), d(_), input) ==
    scanAnd(LAMBDA x : scanAnd3(a, b, c, x), d, input)

scanAnd5(a(_), b(_), c(_), d(_), e(_), input) ==
    scanAnd(LAMBDA x : scanAnd4(a, b, c, d, x), e, input)

\* or(s1, ..., sn): every scanner is applied to the input and the results
\* are combined from the left; results is <<s1(input), ..., sn(input)>>.
scanOr(results) ==
    LET f[k \in 1..Len(results)] ==
            IF k = 1 THEN results[1] ELSE scanCombineOr(f[k - 1], results[k])
    IN  f[Len(results)]

scanNothing(input) == ScanSuccess(<<>>)

scanEmpty(input) ==
    IF Len(input) = 0 THEN ScanSuccess(<<>>) ELSE ScanFailure(<<>>)

\* loop[k]: the do-while of scanZeroOrMore with k code units in result.lexeme.
scanZeroOrMore(scanner(_), input) ==
    LET first == scanner(input)
        loop[k \in 0..Len(input)] ==
            LET remainingInput == substring(input, k)
                nextResult == scanner(remainingInput)
            IN  IF scanIsFailure(nextResult) THEN k
                ELSE IF Len(remainingInput) > 0
                THEN loop[k + Len(nextResult.lexeme)]
                ELSE k + Len(nextResult.lexeme)
    IN  IF scanIsFailure(first) THEN scanNothing(input)
        ELSE ScanSuccess(prefix(input, loop[Len(first.lexeme)]))

scanOneOrMore(scanner(_), input) ==
    LET r == scanner(input)
    IN  IF scanIsFailure(r) THEN r
        ELSE scanCombineAnd(r,
                scanZeroOrMore(scanner, substring(input, Len(r.lexeme))))

scanOptional(scanner(_), input) ==
    scanOr(<<scanner(input), scanNothing(input)>>)

scanButNot(scanner(_), not(_), input) ==
    LET r == scanner(input)
    IN  IF scanIsSuccess(r) /\ scanIsSuccess(not(input))
        THEN ScanFailure(r.lexeme) ELSE r

scanLookaheadNot(scanner(_), notFollowedBy(_), input) ==
    LET r == scanner(input)
    IN  IF scanIsSuccess(r)
           /\ scanIsSuccess(notFollowedBy(substring(input, Len(r.lexeme))))
        THEN ScanFailure(r.lexeme) ELSE r

complete(scanner(_), input) == scanAnd(scanner, scanEmpty, input)

-----------------------------------------------------------------------------
(* scanner.ts: the productions scanNext and computeNextScanState use *)

\* /^[0-9a-fA-F]/, /^[0-9]/, /^[1-9]/
patternHexDigit(c) == c \in 48..57 \/ c \in 97..102 \/ c \in 65..70

patternDecimalDigit(c) == c \in 48..57

patternNonZeroDigit(c) == c \in 49..57

scanHexDigit(input) == scanMatch(patternHexDigit, input)

scanDecimalDigit(input) == scanMatch(patternDecimalDigit, input)

scanNonZeroDigit(input) == scanMatch(patternNonZeroDigit, input)

scanExponentIndicator(input) ==
    scanOr(<<scanLiteral(<<101>>, input), scanLiteral(<<69>>, input)>>)

scanHexIntegerLiteral(input) ==
    scanOr(<<
        scanAnd(LAMBDA x : scanLiteral(<<48, 120>>, x),
                LAMBDA x : scanOneOrMore(scanHexDigit, x), input),
        scanAnd(LAMBDA x : scanLiteral(<<48, 88>>, x),
                LAMBDA x : scanOneOrMore(scanHexDigit, x), input) >>)

scanDecimalDigits(input) == scanOneOrMore(scanDecimalDigit, input)

scanSignedInteger(input) ==
    scanOr(<<
        scanDecimalDigits(input),
        scanAnd(LAMBDA x : scanLiteral(<<plus>>, x), scanDecimalDigits, input),
        scanAnd(LAMBDA x : scanLiteral(<<minus>>, x), scanDecimalDigits, input) >>)

scanExponentPart(input) ==
    scanAnd(scanExponentIndicator, scanSignedInteger, input)

\* A decimal integer literal that may start with zeros.
scanDecimalIntegerLiteralLeadingZeros(input) == scanDecimalDigits(input)

scanDecimalIntegerLiteral(input) ==
    scanOr(<<
        scanLiteral(<<char0>>, input),
        scanAnd(scanNonZeroDigit,
                LAMBDA x : scanOptional(scanDecimalDigits, x), input) >>)

scanDecimalLiteral(input) ==
    scanOr(<<
        scanAnd4(scanDecimalIntegerLiteral,
                 LAMBDA x : scanLiteral(<<dot>>, x),
                 LAMBDA x : scanOptional(scanDecimalDigits, x),
                 LAMBDA x : scanOptional(scanExponentPart, x), input),
        scanAnd3(LAMBDA x : scanLiteral(<<dot>>, x),
                 scanDecimalDigits,
                 LAMBDA x : scanOptional(scanExponentPart, x), input),
        scanAnd(scanDecimalIntegerLiteral,
                LAMBDA x : scanOptional(scanExponentPart, x), input) >>)

scanNumericLiteral(input) ==
    scanOr(<<scanDecimalLiteral(input), scanHexIntegerLiteral(input)>>)

\* 'Infinity' and 'NaN'
strInfinity == <<73, 110, 102, 105, 110, 105, 116, 121>>

strNaN == <<78, 97, 78>>

scanJSON5NumericLiteral(input) ==
    scanOr(<<scanNumericLiteral(input),
             scanLiteral(strInfinity, input),
             scanLiteral(strNaN, input)>>)

scanJSON5Number(input) ==
    scanOr(<<
        scanJSON5NumericLiteral(input),
        scanAnd(LAMBDA x : scanLiteral(<<plus>>, x), scanJSON5NumericLiteral, input),
        scanAnd(LAMBDA x : scanLiteral(<<minus>>, x), scanJSON5NumericLiteral, input) >>)

scanLineTerminator(input) ==
    scanOr(<<scanLiteral(<<lineFeed>>, input),
             scanLiteral(<<carriageReturn>>, input),
             scanLiteral(<<lineSeparator>>, input),
             scanLiteral(<<paragraphSeparator>>, input)>>)

scanLineTerminatorSequence(input) ==
    scanOr(<<
        scanLiteral(<<lineFeed>>, input),
        scanLookaheadNot(LAMBDA x : scanLiteral(<<carriageReturn>>, x),
                         LAMBDA x : scanLiteral(<<lineFeed>>, x), input),
        scanLiteral(<<lineSeparator>>, input),
        scanLiteral(<<carriageReturn, lineFeed>>, input) >>)

scanLineContinuation(input) ==
    scanAnd(LAMBDA x : scanLiteral(<<backslash>>, x),
            scanLineTerminatorSequence, input)

scanHexEscapeSequence(input) ==
    scanAnd3(LAMBDA x : scanLiteral(<<120>>, x), scanHexDigit, scanHexDigit, input)

scanUnicodeEscapeSequence(input) ==
    scanAnd5(LAMBDA x : scanLiteral(<<117>>, x),
             scanHexDigit, scanHexDigit, scanHexDigit, scanHexDigit, input)

\* ' " \ b f n r t v
scanSingleEscapeCharacter(input) ==
    scanOr(<<scanLiteral(<<singleQuote>>, input),
             scanLiteral(<<doubleQuote>>, input),
             scanLiteral(<<backslash>>, input),
             scanLiteral(<<98>>, input),
             scanLiteral(<<102>>, input),
             scanLiteral(<<110>>, input),
             scanLiteral(<<114>>, input),
             scanLiteral(<<116>>, input),
             scanLiteral(<<118>>, input)>>)

scanEscapeCharacter(input) ==
    scanOr(<<scanSingleEscapeCharacter(input),
             scanDecimalDigit(input),
             scanLiteral(<<120>>, input),
             scanLiteral(<<117>>, input)>>)

scanSourceCharacter(input) ==
    IF Len(input) > 0 THEN ScanSuccess(<<input[1]>>) ELSE ScanFailure(<<>>)

scanNonEscapeCharacter(input) ==
    LET r == scanSourceCharacter(input)
    IN  IF scanIsSuccess(r)
           /\ (scanIsSuccess(scanEscapeCharacter(input))
               \/ scanIsSuccess(scanLineTerminator(input)))
        THEN ScanFailure(<<>>) ELSE r

scanCharacterEscapeSequence(input) ==
    scanOr(<<scanSingleEscapeCharacter(input), scanNonEscapeCharacter(input)>>)

scanEscapeSequence(input) ==
    scanOr(<<
        scanCharacterEscapeSequence(input),
        scanLookaheadNot(LAMBDA x : scanLiteral(<<char0>>, x), scanDecimalDigit, input),
        scanHexEscapeSequence(input),
        scanUnicodeEscapeSequence(input) >>)

\* The string characters without the exclusion of the line terminators.
scanJSON5StringCharacterAcrossLines(quote, input) ==
    scanOr(<<
        scanButNot(scanSourceCharacter,
                   LAMBDA x : scanOr(<<scanLiteral(<<quote>>, x),
                                       scanLiteral(<<backslash>>, x)>>), input),
        scanAnd(LAMBDA x : scanLiteral(<<backslash>>, x), scanEscapeSequence, input),
        scanLineContinuation(input),
        scanLiteral(<<lineSeparator>>, input),
        scanLiteral(<<paragraphSeparator>>, input) >>)

\* JSON5SingleStringCharacter and JSON5DoubleStringCharacter differ in the
\* quote only.
scanJSON5StringCharacter(quote, input) ==
    scanOr(<<
        scanButNot(scanSourceCharacter,
                   LAMBDA x : scanOr(<<scanLiteral(<<quote>>, x),
                                       scanLiteral(<<backslash>>, x),
                                       scanLineTerminator(x)>>), input),
        scanAnd(LAMBDA x : scanLiteral(<<backslash>>, x), scanEscapeSequence, input),
        scanLineContinuation(input),
        scanLiteral(<<lineSeparator>>, input),
        scanLiteral(<<paragraphSeparator>>, input) >>)

scanJSON5SingleStringCharacter(input) == scanJSON5StringCharacter(singleQuote, input)

scanJSON5DoubleStringCharacter(input) == scanJSON5StringCharacter(doubleQuote, input)

scanJSON5SingleStringCharacters(input) ==
    scanOneOrMore(scanJSON5SingleStringCharacter, input)

scanJSON5DoubleStringCharacters(input) ==
    scanOneOrMore(scanJSON5DoubleStringCharacter, input)

scanJSON5String(input) ==
    scanOr(<<
        scanAnd3(LAMBDA x : scanLiteral(<<doubleQuote>>, x),
                 LAMBDA x : scanZeroOrMore(scanJSON5DoubleStringCharacters, x),
                 LAMBDA x : scanLiteral(<<doubleQuote>>, x), input),
        scanAnd3(LAMBDA x : scanLiteral(<<singleQuote>>, x),
                 LAMBDA x : scanZeroOrMore(scanJSON5SingleStringCharacters, x),
                 LAMBDA x : scanLiteral(<<singleQuote>>, x), input) >>)

scanSingleLineCommentChar(input) ==
    scanButNot(scanSourceCharacter, scanLineTerminator, input)

RECURSIVE scanSingleLineCommentChars(_)
scanSingleLineCommentChars(input) ==
    scanAnd(scanSingleLineCommentChar,
            LAMBDA x : scanOptional(scanSingleLineCommentChars, x), input)

scanSingleLineComment(input) ==
    scanAnd(LAMBDA x : scanLiteral(<<slash, slash>>, x),
            LAMBDA x : scanOptional(scanSingleLineCommentChars, x), input)

scanMultiLineNotAsteriskChar(input) ==
    scanButNot(scanSourceCharacter, LAMBDA x : scanLiteral(<<asterisk>>, x), input)

\* The comment characters without the lookahead that keeps an asterisk
\* before a slash out of them.
scanMultiLineCommentCharsAnyAsterisk(input) ==
    scanOneOrMore(
        LAMBDA y : scanOr(<<
            scanMultiLineNotAsteriskChar(y),
            scanLiteral(<<asterisk>>, y) >>),
        input)

scanMultiLineCommentChars(input) ==
    scanOneOrMore(
        LAMBDA y : scanOr(<<
            scanMultiLineNotAsteriskChar(y),
            scanLookaheadNot(LAMBDA x : scanLiteral(<<asterisk>>, x),
                             LAMBDA x : scanLiteral(<<slash>>, x), y) >>),
        input)

scanMultiLineComment(input) ==
    scanAnd3(LAMBDA x : scanLiteral(<<slash, asterisk>>, x),
             LAMBDA x : scanOptional(scanMultiLineCommentChars, x),
             LAMBDA x : scanLiteral(<<asterisk, slash>>, x), input)

-----------------------------------------------------------------------------
(* JSON5.parse of the json5 package, applied to the lexeme of a string     *)
(* literal: the decoded string, or an exception for a lexeme that is not a *)
(* JSON5 string.                                                           *)

hexValue(c) ==
    IF c \in 48..57 THEN c - 48
    ELSE IF c \in 97..102 THEN c - 87 ELSE c - 55

isHexAt(lexeme, i, n) ==
    /\ i + n - 1 <= Len(lexeme)
    /\ \A j \in i..(i + n - 1) : patternHexDigit(lexeme[j])

JSON5parse(lexeme) ==
    LET n == Len(lexeme)
        quote == lexeme[1]
        Throw == [threw |-> TRUE, value |-> <<>>]
        \* rest[i]: the lexer's string state with lexeme[i] next to read
        rest[i \in 2..(n + 1)] ==
            IF i > n THEN Throw
            ELSE LET c == lexeme[i] IN
              IF c = quote
              THEN [threw |-> i # n, value |-> <<>>]
              ELSE IF c = lineFeed \/ c = carriageReturn THEN Throw
              ELSE IF c # backslash
              THEN [threw |-> rest[i + 1].threw, value |-> <<c>> \o rest[i + 1].value]
              ELSE IF i + 1 > n THEN Throw
              ELSE LET e == lexeme[i + 1]
                       Cont(k, out) ==
                           IF k > n THEN Throw
                           ELSE [threw |-> rest[k].threw, value |-> out \o rest[k].value]
                   IN  IF e = 98 THEN Cont(i + 2, <<8>>)
                       ELSE IF e = 102 THEN Cont(i + 2, <<12>>)
                       ELSE IF e = 110 THEN Cont(i + 2, <<10>>)
                       ELSE IF e = 114 THEN Cont(i + 2, <<13>>)
                       ELSE IF e = 116 THEN Cont(i + 2, <<9>>)
                       ELSE IF e = 118 THEN Cont(i + 2, <<11>>)
                       ELSE IF e = char0
                       THEN IF i + 2 <= n /\ patternDecimalDigit(lexeme[i + 2])
                            THEN Throw ELSE Cont(i + 2, <<0>>)
                       ELSE IF e = 120
                       THEN IF isHexAt(lexeme, i + 2, 2)
                            THEN Cont(i + 4, <<16 * hexValue(lexeme[i + 2])
                                               + hexValue(lexeme[i + 3])>>)
                            ELSE Throw
                       ELSE IF e = 117
                       THEN IF isHexAt(lexeme, i + 2, 4)
                            THEN Cont(i + 6, <<4096 * hexValue(lexeme[i + 2])
                                               + 256 * hexValue(lexeme[i + 3])
                                               + 16 * hexValue(lexeme[i + 4])
                                               + hexValue(lexeme[i + 5])>>)
                            ELSE Throw
                       ELSE IF e \in {lineFeed, lineSeparator, paragraphSeparator}
                       THEN Cont(i + 2, <<>>)
                       ELSE IF e = carriageReturn
                       THEN IF i + 2 <= n /\ lexeme[i + 2] = lineFeed
                            THEN Cont(i + 3, <<>>) ELSE Cont(i + 2, <<>>)
                       ELSE IF e \in 49..57 THEN Throw
                       ELSE Cont(i + 2, <<e>>)
    IN  IF n < 2 \/ ~(quote \in {doubleQuote, singleQuote}) THEN Throw
        ELSE rest[2]

-----------------------------------------------------------------------------
(* scanner.ts: the scanner *)

NaN == -1

charCodeAt(t, p) == IF p \in 0..(Len(t) - 1) THEN t[p + 1] ELSE NaN

isWhiteSpace(ch) ==
    \/ ch = space \/ ch = tab \/ ch = verticalTab \/ ch = formFeed
    \/ ch = nonBreakingSpace \/ ch = ogham
    \/ (ch >= enQuad /\ ch <= zeroWidthSpace)
    \/ ch = narrowNoBreakSpace \/ ch = mathematicalSpace
    \/ ch = ideographicSpace \/ ch = byteOrderMark

\* isLineBreak without the paragraph separator.
isLineBreakWithoutParagraphSeparator(ch) ==
    \/ ch = lineFeed \/ ch = carriageReturn
    \/ ch = lineSeparator

isLineBreak(ch) ==
    \/ ch = lineFeed \/ ch = carriageReturn
    \/ ch = lineSeparator \/ ch = paragraphSeparator

isUnknownContentCharacter(code) ==
    /\ ~(isWhiteSpace(code) \/ isLineBreak(code))
    /\ code \notin {closeBrace, closeBracket, openBrace, openBracket,
                    doubleQuote, colon, comma, slash}

\* The ScanState of the scanner whose fields are in the record st.
currentState(st) ==
    [token |-> st.token, value |-> st.value, scanError |-> st.scanError,
     pos |-> st.pos, lineNumber |-> st.lineNumber,
     tokenLineStartOffset |-> st.tokenLineStartOffset, threw |-> FALSE]

\* The loop of computeNextScanState over the consumed input: the line number
\* and the offset of the start of the last line after it, as <<ln, off>>.
lineStateAfter(previousState, consumed) ==
    LET lines[index \in 0..Len(consumed), ln \in Nat, off \in Nat] ==
            IF index >= Len(consumed) THEN <<ln, off>>
            ELSE LET lineBreak == scanLineTerminatorSequence(substring(consumed, index))
                 IN  IF scanIsSuccess(lineBreak)
                     THEN lines[index + Len(lineBreak.lexeme), ln + 1,
                                previousState.pos + index + Len(lineBreak.lexeme)]
                     ELSE lines[index + 1, ln, off]
    IN  lines[0, previousState.lineNumber, previousState.tokenLineStartOffset]

\* intermediateState, were the input a failed scan consumed left unread.
intermediateStateOfFailureNotConsumed(previousState, scanResult, tok) ==
    LET consumed == IF scanIsFailure(scanResult) THEN <<>> ELSE scanResult.lexeme
        final == lineStateAfter(previousState, consumed)
    IN  [previousState EXCEPT !.token = tok,
                              !.pos = previousState.pos + Len(consumed),
                              !.lineNumber = final[1],
                              !.tokenLineStartOffset = final[2]]

\* intermediateState of computeNextScanState
intermediateStateOf(previousState, scanResult, tok) ==
    LET consumed == IF scanIsFailure(scanResult)
                    THEN scanResult.consumed ELSE scanResult.lexeme
        final == lineStateAfter(previousState, consumed)
    IN  [previousState EXCEPT !.token = tok,
                              !.pos = previousState.pos + Len(consumed),
                              !.lineNumber = final[1],
                              !.tokenLineStartOffset = final[2]]

\* computeNextScanState without the branch of the comment tokens, which then
\* reach the branch that throws.
computeNextScanStateFromCommentsNotImplemented(previousState, intermediateState, scanResult, tok) ==
        IF tok = StringLiteral
        THEN IF scanIsFailure(scanResult)
             THEN [intermediateState EXCEPT !.scanError = UnexpectedEndOfString]
             ELSE LET parsed == JSON5parse(scanResult.lexeme)
                  IN  IF parsed.threw
                      THEN [previousState EXCEPT !.threw = TRUE]
                      ELSE [intermediateState EXCEPT !.value = parsed.value]
        ELSE IF tok = NumericLiteral
        THEN IF scanIsFailure(scanResult)
             THEN [intermediateState EXCEPT !.token = Unknown]
             ELSE [intermediateState EXCEPT !.value = scanResult.lexeme]
        ELSE [previousState EXCEPT !.threw = TRUE]

\* A JSON5.parse that throws, or the throw of the last branch, leaves the
\* previous state with threw set.
computeNextScanStateFrom(previousState, intermediateState, scanResult, tok) ==
        IF tok = StringLiteral
        THEN IF scanIsFailure(scanResult)
             THEN [intermediateState EXCEPT !.scanError = UnexpectedEndOfString]
             ELSE LET parsed == JSON5parse(scanResult.lexeme)
                  IN  IF parsed.threw
                      THEN [previousState EXCEPT !.threw = TRUE]
                      ELSE [intermediateState EXCEPT !.value = parsed.value]
        ELSE IF tok = NumericLiteral
        THEN IF scanIsFailure(scanResult)
             THEN [intermediateState EXCEPT !.token = Unknown]
             ELSE [intermediateState EXCEPT !.value = scanResult.lexeme]
        ELSE IF tok = LineCommentTrivia \/ tok = BlockCommentTrivia
        THEN IF scanIsFailure(scanResult)
             THEN [intermediateState EXCEPT !.scanError = UnexpectedEndOfComment]
             ELSE [intermediateState EXCEPT !.value = scanResult.lexeme]
        ELSE [previousState EXCEPT !.threw = TRUE]

\* computeNextScanState: intermediateState, then the branch of the token.
computeNextScanState(previousState, scanResult, tok) ==
    computeNextScanStateFrom(previousState,
                             intermediateStateOf(previousState, scanResult, tok),
                             scanResult, tok)

\* The first offset q >= p at which a loop that advances while q < len and
\* cond(charCodeAt(q)) stops.
loopEnd(t, p, cond(_)) ==
    CHOOSE q \in p..Len(t) :
        /\ \A k \in p..(q - 1) : cond(charCodeAt(t, k))
        /\ (q = Len(t) \/ ~cond(charCodeAt(t, q)))

\* updateState of scanNext: copies a ScanState into the scanner's fields;
\* an exception raised while the ScanState was computed leaves them alone.
updateState(st, state) ==
    IF state.threw THEN [st EXCEPT !.threw = TRUE]
    ELSE [st EXCEPT !.token = state.token, !.value = state.value,
                    !.scanError = state.scanError, !.pos = state.pos,
                    !.lineNumber = state.lineNumber,
                    !.tokenLineStartOffset = state.tokenLineStartOffset]

scanNext(t, st) ==
    LET len == Len(t)
        s0 == [st EXCEPT !.value = <<>>, !.scanError = None,
                         !.tokenOffset = st.pos,
                         !.lineStartOffset = st.lineNumber,
                         !.prevTokenLineStartOffset = st.tokenLineStartOffset]
        code == charCodeAt(t, s0.pos)
        rest == substring(t, s0.pos)
        punctuator(kind) == [s0 EXCEPT !.pos = s0.pos + 1, !.token = kind]
    IN  IF s0.pos >= len
        THEN [s0 EXCEPT !.tokenOffset = len, !.token = EOF]
        ELSE IF isWhiteSpace(code)
        THEN LET end == loopEnd(t, s0.pos + 1, isWhiteSpace)
             IN  [s0 EXCEPT !.pos = end, !.value = SubSeq(t, s0.pos + 1, end),
                            !.token = Trivia]
        ELSE IF isLineBreak(code)
        THEN LET crlf == code = carriageReturn
                         /\ charCodeAt(t, s0.pos + 1) = lineFeed
                 end == IF crlf THEN s0.pos + 2 ELSE s0.pos + 1
             IN  [s0 EXCEPT !.pos = end,
                            !.value = IF crlf THEN <<code, lineFeed>> ELSE <<code>>,
                            !.lineNumber = s0.lineNumber + 1,
                            !.tokenLineStartOffset = end,
                            !.token = LineBreakTrivia]
        ELSE IF code = openBrace THEN punctuator(OpenBraceToken)
        ELSE IF code = closeBrace THEN punctuator(CloseBraceToken)
        ELSE IF code = openBracket THEN punctuator(OpenBracketToken)
        ELSE IF code = closeBracket THEN punctuator(CloseBracketToken)
        ELSE IF code = colon THEN punctuator(ColonToken)
        ELSE IF code = comma THEN punctuator(CommaToken)
        ELSE IF code = doubleQuote \/ code = singleQuote
        THEN updateState(s0, computeNextScanState(currentState(s0),
                                 scanJSON5String(rest), StringLiteral))
        ELSE IF code = slash
        THEN IF charCodeAt(t, s0.pos + 1) = slash
             THEN updateState(s0, computeNextScanState(currentState(s0),
                                 scanSingleLineComment(rest), LineCommentTrivia))
             ELSE IF charCodeAt(t, s0.pos + 1) = asterisk
             THEN updateState(s0, computeNextScanState(currentState(s0),
                                 scanMultiLineComment(rest), BlockCommentTrivia))
             ELSE [s0 EXCEPT !.value = <<code>>, !.pos = s0.pos + 1,
                             !.token = Unknown]
        ELSE IF code \in {minus, plus, dot} \/ code \in char0..char9
        THEN updateState(s0, computeNextScanState(currentState(s0),
                                 scanJSON5Number(rest), NumericLiteral))
        ELSE LET end == loopEnd(t, s0.pos, isUnknownContentCharacter)
                 word == SubSeq(t, s0.tokenOffset + 1, end)
             IN  IF s0.tokenOffset # end
                 THEN [s0 EXCEPT !.pos = end, !.value = word, !.token =
                         IF scanIsSuccess(complete(
                               LAMBDA x : scanLiteral(<<116, 114, 117, 101>>, x), word))
                         THEN TrueKeyword
                         ELSE IF scanIsSuccess(complete(
                               LAMBDA x : scanLiteral(<<102, 97, 108, 115, 101>>, x), word))
                         THEN FalseKeyword
                         ELSE IF scanIsSuccess(complete(
                               LAMBDA x : scanLiteral(<<110, 117, 108, 108>>, x), word))
                         THEN NullKeyword
                         ELSE IF scanIsSuccess(complete(scanJSON5Number, word))
                         THEN NumericLiteral
                         ELSE Unknown]
                 ELSE [s0 EXCEPT !.value = <<code>>, !.pos = s0.pos + 1,
                                 !.token = Unknown]

\* scanNextNonTrivia: scanNext until the result is no trivia; an exception
\* ends the loop.  scanNextNonTriviaLoop is the while of the do-while loop,
\* given the result of scanNext.
RECURSIVE scanNextNonTrivia(_, _)

\* The loop with a range of trivia that starts after the line comments.
scanNextNonTriviaLoopAfterLineComment(t, next) ==
    IF ~next.threw /\ next.token > LineCommentTrivia /\ next.token <= Trivia
    THEN scanNextNonTrivia(t, next)
    ELSE next

scanNextNonTriviaLoop(t, next) ==
    IF ~next.threw /\ next.token >= LineCommentTrivia /\ next.token <= Trivia
    THEN scanNextNonTrivia(t, next)
    ELSE next

scanNextNonTrivia(t, st) == scanNextNonTriviaLoop(t, scanNext(t, st))

-----------------------------------------------------------------------------
(* grammar.ts: scan results and combinators *)

Result(success, length, lineBreaksCount, lengthToEndOfLastLineBreak, syntaxKind) ==
    [success |-> success, length |-> length,
     lineBreaksCount |-> lineBreaksCount,
     lengthToEndOfLastLineBreak |-> lengthToEndOfLastLineBreak,
     syntaxKind |-> syntaxKind]

isSuccess(r) == r.success

isFailure(r) == ~r.success

emptyFailure == Result(FALSE, 0, 0, 0, Unknown)

emptySuccess == Result(TRUE, 0, 0, 0, Unknown)

nothing(input) == emptySuccess

\* concatenate, were the kind of the first result kept whenever it matched
\* input.
concatenateKindOfFirst(firstResult, secondResult) ==
    Result(TRUE,
           firstResult.length + secondResult.length,
           firstResult.lineBreaksCount + secondResult.lineBreaksCount,
           IF secondResult.lineBreaksCount > 0
           THEN firstResult.length + secondResult.lengthToEndOfLastLineBreak
           ELSE firstResult.lengthToEndOfLastLineBreak,
           IF firstResult.length = 0 THEN secondResult.syntaxKind
           ELSE firstResult.syntaxKind)

concatenate(firstResult, secondResult) ==
    Result(TRUE,
           firstResult.length + secondResult.length,
           firstResult.lineBreaksCount + secondResult.lineBreaksCount,
           IF secondResult.lineBreaksCount > 0
           THEN firstResult.length + secondResult.lengthToEndOfLastLineBreak
           ELSE firstResult.lengthToEndOfLastLineBreak,
           IF secondResult.length = 0 THEN firstResult.syntaxKind
           ELSE IF firstResult.length = 0 THEN secondResult.syntaxKind
           ELSE Unknown)

withSyntaxKind(syntaxKind, r) == [r EXCEPT !.syntaxKind = syntaxKind]

literal(t, input) ==
    IF startsWith(input, t) THEN Result(TRUE, Len(t), 0, 0, Unknown)
    ELSE emptyFailure

literalLineBreak(t, input) ==
    IF startsWith(input, t) THEN Result(TRUE, Len(t), 1, Len(t), Unknown)
    ELSE emptyFailure

\* match(pattern) for the patterns of the grammar: one character of a class.
match(pattern(_), input) ==
    IF Len(input) > 0 /\ pattern(input[1])
    THEN Result(TRUE, 1, 0, 0, Unknown) ELSE emptyFailure

combineAnd(first(_), second(_), input) ==
    LET firstResult == first(input)
    IN  IF isFailure(firstResult) THEN firstResult
        ELSE LET secondResult == second(substring(input, firstResult.length))
             IN  IF isFailure(secondResult)
                 THEN [secondResult EXCEPT
                          !.length = firstResult.length + secondResult.length]
                 ELSE concatenate(firstResult, secondResult)

\* and(a, b, c, ...) is scanners.reduce(combineAnd).
and3(a(_), b(_), c(_), input) ==
    combineAnd(LAMBDA x : combineAnd(a, b, x), c, input)

and4(a(_), b(_), c(_), d(_), input) ==
    combineAnd(LAMBDA x : and3(a, b, c, x), d, input)

and5(a(_), b(_), c(_), d(_), e(_), input) ==
    combineAnd(LAMBDA x : and4(a, b, c, d, x), e, input)

\* combineOr, were the second of two failures of the same length returned.
combineOrLastOfEqual(firstResult, secondResult) ==
    IF isSuccess(firstResult) THEN firstResult
    ELSE IF isSuccess(secondResult) THEN secondResult
    ELSE IF firstResult.length > secondResult.length THEN firstResult
    ELSE secondResult

\* combineOr(first, second)(input), given the results of the two scanners
\* on the input (they are pure).
combineOr(firstResult, secondResult) ==
    IF isSuccess(firstResult) THEN firstResult
    ELSE IF isSuccess(secondResult) THEN secondResult
    ELSE IF firstResult.length >= secondResult.length THEN firstResult
    ELSE secondResult

\* or(s1, ..., sn) is scanners.reduce(combineOr); results is
\* <<s1(input), ..., sn(input)>>.
or(results) ==
    LET f[k \in 1..Len(results)] ==
            IF k = 1 THEN results[1] ELSE combineOr(f[k - 1], results[k])
    IN  f[Len(results)]

\* combineLongest, were the first of two successes of the same length
\* returned.
combineLongestFirstOfEqual(firstResult, secondResult) ==
    IF isFailure(firstResult) /\ isFailure(secondResult)
    THEN IF firstResult.length >= secondResult.length THEN firstResult
         ELSE secondResult
    ELSE IF isFailure(secondResult) THEN firstResult
    ELSE IF isFailure(firstResult) THEN secondResult
    ELSE IF firstResult.length >= secondResult.length THEN firstResult
    ELSE secondResult

combineLongest(firstResult, secondResult) ==
    IF isFailure(firstResult) /\ isFailure(secondResult)
    THEN IF firstResult.length >= secondResult.length THEN firstResult
         ELSE secondResult
    ELSE IF isFailure(secondResult) THEN firstResult
    ELSE IF isFailure(firstResult) THEN secondResult
    ELSE IF firstResult.length > secondResult.length THEN firstResult
    ELSE secondResult

longest(results) ==
    LET f[k \in 1..Len(results)] ==
            IF k = 1 THEN results[1] ELSE combineLongest(f[k - 1], results[k])
    IN  f[Len(results)]

optional(scanner(_), input) == or(<<scanner(input), nothing(input)>>)

\* zeroOrMoreScanner[k]: zeroOrMore(scanner) on the input behind offset k.
zeroOrMore(scanner(_), input) ==
    LET zeroOrMoreScanner[k \in 0..Len(input)] ==
            LET r == optional(scanner, substring(input, k))
            IN  IF isFailure(r) \/ (isSuccess(r) /\ r.length = 0)
                THEN emptySuccess
                ELSE concatenate(r, zeroOrMoreScanner[k + r.length])
    IN  zeroOrMoreScanner[0]

oneOrMore(scanner(_), input) ==
    combineAnd(scanner, LAMBDA x : zeroOrMore(scanner, x), input)

butNot(scanner(_), not(_), input) ==
    LET r == scanner(input)
    IN  IF isSuccess(r) /\ isSuccess(not(input))
        THEN Result(FALSE, r.length, r.lineBreaksCount,
                    r.lengthToEndOfLastLineBreak, Unknown)
        ELSE r

lookaheadNot(scanner(_), notFollowedBy(_), input) ==
    LET r == scanner(input)
    IN  IF isSuccess(r) /\ isSuccess(notFollowedBy(substring(input, r.length)))
        THEN Result(FALSE, r.length, r.lineBreaksCount,
                    r.lengthToEndOfLastLineBreak, Unknown)
        ELSE r


-----------------------------------------------------------------------------
(* grammar.ts: the JSON5 grammar *)

\* The Unicode property classes, on the code units below 256 and on the
\* further ones listed: \p{Zs}, \p{Pc}, \p{Nd}, \p{Mn} or \p{Mc}, and
\* \p{Lu}, \p{Ll}, \p{Lt}, \p{Lm}, \p{Lo} or \p{Nl}.
patternZs(c) ==
    c \in {32, 160, 5760, 8239, 8287, 12288} \/ c \in 8192..8202

patternPc(c) == c \in {95, 8255, 8256, 8276}

patternNd(c) == c \in 48..57 \/ c \in 1632..1641

patternCombiningMark(c) == c \in 768..879

patternLetter(c) ==
    \/ c \in 65..90 \/ c \in 97..122
    \/ c \in {170, 181, 186} \/ c \in 192..214 \/ c \in 216..246
    \/ c \in 248..255

hexDigit(input) == match(patternHexDigit, input)

decimalDigit(input) == match(patternDecimalDigit, input)

nonZeroDigit(input) == match(patternNonZeroDigit, input)

exponentIndicator(input) ==
    or(<<literal(<<101>>, input), literal(<<69>>, input)>>)

hexIntegerLiteral(input) ==
    or(<<
        combineAnd(LAMBDA x : literal(<<48, 120>>, x),
                   LAMBDA x : oneOrMore(hexDigit, x), input),
        combineAnd(LAMBDA x : literal(<<48, 88>>, x),
                   LAMBDA x : oneOrMore(hexDigit, x), input) >>)

decimalDigits(input) == oneOrMore(decimalDigit, input)

signedInteger(input) ==
    or(<<
        decimalDigits(input),
        combineAnd(LAMBDA x : literal(<<plus>>, x), decimalDigits, input),
        combineAnd(LAMBDA x : literal(<<minus>>, x), decimalDigits, input) >>)

exponentPart(input) == combineAnd(exponentIndicator, signedInteger, input)

decimalIntegerLiteral(input) ==
    or(<<
        literal(<<char0>>, input),
        combineAnd(nonZeroDigit, LAMBDA x : optional(decimalDigits, x), input) >>)

decimalLiteral(input) ==
    or(<<
        and4(decimalIntegerLiteral,
             LAMBDA x : literal(<<dot>>, x),
             LAMBDA x : optional(decimalDigits, x),
             LAMBDA x : optional(exponentPart, x), input),
        and3(LAMBDA x : literal(<<dot>>, x),
             decimalDigits,
             LAMBDA x : optional(exponentPart, x), input),
        combineAnd(decimalIntegerLiteral,
                   LAMBDA x : optional(exponentPart, x), input) >>)

numericLiteral(input) ==
    withSyntaxKind(NumericLiteral,
        or(<<hexIntegerLiteral(input), decimalLiteral(input)>>))

infinityLiteral(input) ==
    withSyntaxKind(InfinityKeyword, literal(strInfinity, input))

nanLiteral(input) == withSyntaxKind(NaNKeyword, literal(strNaN, input))

json5NumericLiteral(input) ==
    or(<<numericLiteral(input), infinityLiteral(input), nanLiteral(input)>>)

json5Number(input) ==
    or(<<
        json5NumericLiteral(input),
        withSyntaxKind(NumericLiteral,
            combineAnd(LAMBDA x : literal(<<plus>>, x), json5NumericLiteral, input)),
        withSyntaxKind(NumericLiteral,
            combineAnd(LAMBDA x : literal(<<minus>>, x), json5NumericLiteral, input)) >>)

lineTerminator(input) ==
    withSyntaxKind(LineBreakTrivia,
        or(<<literalLineBreak(<<lineFeed>>, input),
             literalLineBreak(<<carriageReturn>>, input),
             literalLineBreak(<<lineSeparator>>, input),
             literalLineBreak(<<paragraphSeparator>>, input)>>))

lineTerminatorSequence(input) ==
    withSyntaxKind(LineBreakTrivia,
        or(<<literalLineBreak(<<lineFeed>>, input),
             lookaheadNot(LAMBDA x : literalLineBreak(<<carriageReturn>>, x),
                          LAMBDA x : literalLineBreak(<<lineFeed>>, x), input),
             literalLineBreak(<<lineSeparator>>, input),
             literalLineBreak(<<paragraphSeparator>>, input),
             literalLineBreak(<<carriageReturn, lineFeed>>, input)>>))

lineContinuation(input) ==
    combineAnd(LAMBDA x : literal(<<backslash>>, x), lineTerminatorSequence, input)

\* A hex escape sequence of one hex digit.
hexEscapeSequenceOneDigit(input) ==
    combineAnd(LAMBDA x : literal(<<120>>, x), hexDigit, input)

hexEscapeSequence(input) ==
    and3(LAMBDA x : literal(<<120>>, x), hexDigit, hexDigit, input)

unicodeEscapeSequence(input) ==
    and5(LAMBDA x : literal(<<117>>, x),
         hexDigit, hexDigit, hexDigit, hexDigit, input)

singleEscapeCharacter(input) ==
    or(<<literal(<<singleQuote>>, input),
         literal(<<doubleQuote>>, input),
         literal(<<backslash>>, input),
         literal(<<98>>, input),
         literal(<<102>>, input),
         literal(<<110>>, input),
         literal(<<114>>, input),
         literal(<<116>>, input),
         literal(<<118>>, input)>>)

escapeCharacter(input) ==
    or(<<singleEscapeCharacter(input),
         decimalDigit(input),
         literal(<<120>>, input),
         literal(<<117>>, input)>>)

sourceCharacter(input) ==
    IF Len(input) > 0 THEN Result(TRUE, 1, 0, 0, Unknown)
    ELSE Result(FALSE, 0, 0, 0, Unknown)

nonEscapeCharacter(input) ==
    butNot(sourceCharacter,
           LAMBDA x : or(<<escapeCharacter(x), lineTerminator(x)>>), input)

characterEscapeSequence(input) ==
    or(<<singleEscapeCharacter(input), nonEscapeCharacter(input)>>)

escapeSequence(input) ==
    or(<<characterEscapeSequence(input),
         lookaheadNot(LAMBDA x : literal(<<char0>>, x), decimalDigit, input),
         hexEscapeSequence(input),
         unicodeEscapeSequence(input)>>)

\* json5SingleStringCharacter and json5DoubleStringCharacter differ in the
\* quote only.
json5StringCharacter(quote, input) ==
    or(<<
        butNot(sourceCharacter,
               LAMBDA x : or(<<literal(<<quote>>, x),
                               literal(<<backslash>>, x),
                               lineTerminator(x)>>), input),
        combineAnd(LAMBDA x : literal(<<backslash>>, x), escapeSequence, input),
        lineContinuation(input),
        literal(<<lineSeparator>>, input),
        literal(<<paragraphSeparator>>, input) >>)

json5SingleStringCharacter(input) == json5StringCharacter(singleQuote, input)

json5DoubleStringCharacter(input) == json5StringCharacter(doubleQuote, input)

json5SingleStringCharacters(input) == oneOrMore(json5SingleStringCharacter, input)

json5DoubleStringCharacters(input) == oneOrMore(json5DoubleStringCharacter, input)

json5String(input) ==
    withSyntaxKind(StringLiteral,
        or(<<
            and3(LAMBDA x : literal(<<doubleQuote>>, x),
                 LAMBDA x : zeroOrMore(json5DoubleStringCharacters, x),
                 LAMBDA x : literal(<<doubleQuote>>, x), input),
            and3(LAMBDA x : literal(<<singleQuote>>, x),
                 LAMBDA x : zeroOrMore(json5SingleStringCharacters, x),
                 LAMBDA x : literal(<<singleQuote>>, x), input) >>))

strTrue == <<116, 114, 117, 101>>

strFalse == <<102, 97, 108, 115, 101>>

strNull == <<110, 117, 108, 108>>

trueLiteral(input) == withSyntaxKind(TrueKeyword, literal(strTrue, input))

falseLiteral(input) == withSyntaxKind(FalseKeyword, literal(strFalse, input))

nullLiteral(input) == withSyntaxKind(NullKeyword, literal(strNull, input))

json5Punctuator(input) ==
    or(<<withSyntaxKind(OpenBraceToken, literal(<<openBrace>>, input)),
         withSyntaxKind(CloseBraceToken, literal(<<closeBrace>>, input)),
         withSyntaxKind(OpenBracketToken, literal(<<openBracket>>, input)),
         withSyntaxKind(CloseBracketToken, literal(<<closeBracket>>, input)),
         withSyntaxKind(ColonToken, literal(<<colon>>, input)),
         withSyntaxKind(CommaToken, literal(<<comma>>, input))>>)

unicodeConnectorPunctuation(input) == match(patternPc, input)

unicodeDigit(input) == match(patternNd, input)

unicodeCombiningMark(input) == match(patternCombiningMark, input)

unicodeLetter(input) == match(patternLetter, input)

identifierStart(input) ==
    or(<<unicodeLetter(input),
         literal(<<36>>, input),
         literal(<<95>>, input),
         combineAnd(LAMBDA x : literal(<<backslash>>, x),
                    unicodeEscapeSequence, input)>>)

identifierPart(input) ==
    or(<<identifierStart(input),
         unicodeCombiningMark(input),
         unicodeDigit(input),
         unicodeConnectorPunctuation(input),
         literal(<<8204>>, input),
         literal(<<8205>>, input)>>)

identifierName(input) ==
    or(<<combineAnd(identifierStart,
                    LAMBDA x : oneOrMore(identifierPart, x), input),
         identifierStart(input)>>)

\* json5Identifier by the first alternative that matches.
json5IdentifierFirstMatch(input) ==
    or(<<withSyntaxKind(Identifier, identifierName(input)),
         nullLiteral(input),
         trueLiteral(input),
         falseLiteral(input),
         infinityLiteral(input),
         nanLiteral(input)>>)

json5Identifier(input) ==
    longest(<<withSyntaxKind(Identifier, identifierName(input)),
              nullLiteral(input),
              trueLiteral(input),
              falseLiteral(input),
              infinityLiteral(input),
              nanLiteral(input)>>)

json5Token(input) ==
    or(<<json5Identifier(input), json5Punctuator(input),
         json5String(input), json5Number(input)>>)

singleLineCommentChar(input) == butNot(sourceCharacter, lineTerminator, input)

singleLineCommentChars(input) == oneOrMore(singleLineCommentChar, input)

singleLineComment(input) ==
    withSyntaxKind(LineCommentTrivia,
        combineAnd(LAMBDA x : literal(<<slash, slash>>, x),
                   LAMBDA x : optional(singleLineCommentChars, x), input))

multiLineNotAsteriskChar(input) ==
    or(<<lineTerminatorSequence(input),
         butNot(sourceCharacter, LAMBDA x : literal(<<asterisk>>, x), input)>>)

multiLineCommentChars(input) ==
    oneOrMore(
        LAMBDA y : or(<<
            multiLineNotAsteriskChar(y),
            lookaheadNot(LAMBDA x : literal(<<asterisk>>, x),
                         LAMBDA x : literal(<<slash>>, x), y) >>),
        input)

multiLineComment(input) ==
    withSyntaxKind(BlockCommentTrivia,
        and3(LAMBDA x : literal(<<slash, asterisk>>, x),
             LAMBDA x : optional(multiLineCommentChars, x),
             LAMBDA x : literal(<<asterisk, slash>>, x), input))

comment(input) == or(<<multiLineComment(input), singleLineComment(input)>>)

whiteSpace(input) ==
    withSyntaxKind(Trivia,
        oneOrMore(
            LAMBDA y : or(<<literal(<<tab>>, y),
                            literal(<<verticalTab>>, y),
                            literal(<<formFeed>>, y),
                            literal(<<space>>, y),
                            literal(<<nonBreakingSpace>>, y),
                            literal(<<byteOrderMark>>, y),
                            match(patternZs, y)>>),
            input))

json5InputElement(input) ==
    or(<<whiteSpace(input), lineTerminatorSequence(input),
         comment(input), json5Token(input)>>)

-----------------------------------------------------------------------------
(* The scanner as a state machine: createScanner, scan and setPosition *)

\* The fields of the scanner, as the record scanNext works on.
this ==
    [pos |-> pos, value |-> value, tokenOffset |-> tokenOffset, token |-> token,
     lineNumber |-> lineNumber, lineStartOffset |-> lineStartOffset,
     tokenLineStartOffset |-> tokenLineStartOffset,
     prevTokenLineStartOffset |-> prevTokenLineStartOffset,
     scanError |-> scanError, threw |-> threw]

\* createScanner: the fields as they are initialised.
created ==
    [pos |-> 0, value |-> <<>>, tokenOffset |-> 0, token |-> Unknown,
     lineNumber |-> 0, lineStartOffset |-> 0, tokenLineStartOffset |-> 0,
     prevTokenLineStartOffset |-> 0, scanError |-> None, threw |-> FALSE]

\* What the getters report of the token scan() returned.
tokenOf(st) ==
    [kind |-> st.token, offset |-> st.tokenOffset,
     length |-> st.pos - st.tokenOffset, value |-> st.value,
     error |-> st.scanError]

getTokenStartLine == lineStartOffset

getTokenStartCharacter == tokenOffset - prevTokenLineStartOffset

becomes(st) ==
    /\ pos' = st.pos
    /\ value' = st.value
    /\ tokenOffset' = st.tokenOffset
    /\ token' = st.token
    /\ lineNumber' = st.lineNumber
    /\ lineStartOffset' = st.lineStartOffset
    /\ tokenLineStartOffset' = st.tokenLineStartOffset
    /\ prevTokenLineStartOffset' = st.prevTokenLineStartOffset
    /\ scanError' = st.scanError
    /\ threw' = st.threw

MaxParts == 3
MaxScans == 5
MaxSetPositions == 1

RECURSIVE concat(_)
concat(parts) ==
    IF parts = <<>> THEN <<>> ELSE Head(parts) \o concat(Tail(parts))

\* The texts made of at most MaxParts of the given pieces.
TextsOf(pieces) ==
    {concat(parts) : parts \in UNION {[1..n -> pieces] : n \in 0..MaxParts}}

\* createScanner(text, ignoreTrivia) for a text and a mode of the given sets;
\* no entry point of the parser has been called, its options are chosen.
InitOptions(texts, modes, flags) ==
    /\ text \in texts
    /\ ignoreTrivia \in modes
    /\ pos = 0 /\ value = <<>> /\ tokenOffset = 0 /\ token = Unknown
    /\ lineNumber = 0 /\ lineStartOffset = 0 /\ tokenLineStartOffset = 0
    /\ prevTokenLineStartOffset = 0 /\ scanError = None
    /\ threw = FALSE
    /\ lastOp = "createScanner"
    /\ startPos = 0
    /\ returned = <<>>
    /\ setPositions = 0
    /\ production = "none" /\ startOffset = 0 /\ result = emptyFailure
    /\ scanners = <<>>
    /\ disallowComments \in flags /\ called = "none" /\ events = <<>>
    /\ errors = <<>>
    /\ parsedValue = [type |-> "undefined", value |-> <<>>, items |-> <<>>]
    /\ tree = [nodes |-> <<>>, root |-> 0]

InitScanner(texts, modes) == InitOptions(texts, modes, {FALSE})

\* scan, were the end of the text consumed like a character.
scanConsumingEnd(t, mode, st) ==
    LET next == IF mode THEN scanNextNonTrivia(t, st) ELSE scanNext(t, st)
    IN  IF next.token = EOF THEN [next EXCEPT !.pos = next.pos + 1] ELSE next

\* scan: ignoreTrivia ? scanNextNonTrivia : scanNext
scan(t, mode, st) ==
    IF mode THEN scanNextNonTrivia(t, st) ELSE scanNext(t, st)

\* scan(): scanNextNonTrivia or scanNext, as createScanner chose.  startPos
\* keeps the position scan() was called at, returned the tokens scan() has
\* returned since the scanner was created or repositioned.
Scan ==
    /\ ~threw
    /\ Len(returned) < MaxScans
    /\ becomes(scan(text, ignoreTrivia, this))
    /\ returned' = IF threw' THEN returned ELSE Append(returned, tokenOf(this'))
    /\ lastOp' = "scan"
    /\ startPos' = pos
    /\ UNCHANGED <<text, ignoreTrivia, setPositions>>
    /\ UNCHANGED grammarVars
    /\ UNCHANGED parserVars

\* setPosition(newPosition)
setPosition(st, newPosition) ==
    [st EXCEPT !.pos = newPosition, !.value = <<>>, !.tokenOffset = 0,
               !.token = Unknown, !.scanError = None]

SetPosition(newPosition) ==
    /\ ~threw
    /\ setPositions < MaxSetPositions
    /\ becomes(setPosition(this, newPosition))
    /\ lastOp' = "setPosition"
    /\ startPos' = pos
    /\ returned' = <<>>
    /\ setPositions' = setPositions + 1
    /\ UNCHANGED <<text, ignoreTrivia>>
    /\ UNCHANGED grammarVars
    /\ UNCHANGED parserVars

\* setPosition does not check its argument; one position past the end of
\* the text stands for the positions outside of it.
Next ==
    \/ Scan
    \/ \E newPosition \in 0..(Len(text) + 1) : SetPosition(newPosition)

\* The general texts: white space, line breaks, a punctuator, a quote, an
\* escape, the characters of the comments, a sign, a dot, a digit, a letter.
Pieces ==
    {<<space>>, <<lineFeed>>, <<carriageReturn>>, <<comma>>, <<doubleQuote>>,
     <<backslash>>, <<backslash, 110>>, <<slash>>, <<asterisk>>, <<minus>>,
     <<dot>>, <<49>>, <<97>>}

Init == InitScanner(TextsOf(Pieces), BOOLEAN)

Spec == Init /\ [][Next]_vars

\* The texts that open a string: a quote, then at most MaxParts of a
\* letter, the quotes, a backslash and the line breaks a string ends at.
StringPieces ==
    {<<97>>, <<doubleQuote>>, <<singleQuote>>, <<backslash>>, <<lineFeed>>,
     <<carriageReturn>>}

StringTexts ==
    {<<quote>> \o rest : quote \in {doubleQuote, singleQuote},
                         rest \in TextsOf(StringPieces)}

InitStrings == InitScanner(StringTexts, {FALSE})

SpecStrings == InitStrings /\ [][Next]_vars

\* The texts of the block comments: at most MaxParts of the opening and the
\* closing of a comment, their two characters, a space and a line feed, and
\* the comments /****/ and /* **/.
CommentPieces ==
    {<<slash, asterisk>>, <<asterisk, slash>>, <<asterisk>>, <<slash>>,
     <<space>>, <<lineFeed>>}

CommentTexts ==
    TextsOf(CommentPieces)
        \cup {<<slash, asterisk, asterisk, asterisk, asterisk, slash>>,
              <<slash, asterisk, space, asterisk, asterisk, slash>>}

InitComments == InitScanner(CommentTexts, {FALSE})

SpecComments == InitComments /\ [][Next]_vars

\* The texts of the numbers: at most MaxParts of the signs, the dot, two
\* digits, the exponent indicator (a hex digit too), the x of a hex literal,
\* Infinity and NaN.
NumberPieces ==
    {<<minus>>, <<plus>>, <<dot>>, <<char0>>, <<49>>, <<101>>, <<120>>,
     strInfinity, strNaN}

InitNumbers == InitScanner(TextsOf(NumberPieces), {FALSE})

SpecNumbers == InitNumbers /\ [][Next]_vars

\* The texts of the line breaks: at most MaxParts of the four line
\* terminators, a letter and a space.
LineBreakPieces ==
    {<<lineFeed>>, <<carriageReturn>>, <<lineSeparator>>,
     <<paragraphSeparator>>, <<97>>, <<space>>}

InitLineBreaks == InitScanner(TextsOf(LineBreakPieces), {FALSE})

SpecLineBreaks == InitLineBreaks /\ [][Next]_vars

\* The texts of the lines: at most MaxParts of the line terminators, a
\* letter, the delimiters of the comments, a quote and the line
\* continuations of a string.
LinePieces ==
    {<<lineFeed>>, <<carriageReturn>>, <<lineSeparator>>,
     <<paragraphSeparator>>, <<97>>, <<slash, asterisk>>, <<asterisk, slash>>,
     <<slash, slash>>, <<doubleQuote>>, <<backslash, lineFeed>>,
     <<backslash, carriageReturn>>}

InitLines == InitScanner(TextsOf(LinePieces), BOOLEAN)

SpecLines == InitLines /\ [][Next]_vars

-----------------------------------------------------------------------------
(* The productions of grammar.ts applied to the rest of a text *)

\* A production is applied once to the rest of the text at an offset.
Apply(name, offset, scanResult) ==
    /\ production = "none"
    /\ production' = name
    /\ startOffset' = offset
    /\ result' = scanResult
    /\ UNCHANGED <<text, ignoreTrivia, scanners>>
    /\ UNCHANGED scannerVars
    /\ UNCHANGED parserVars

ApplyJson5InputElement(offset) ==
    Apply("json5InputElement", offset, json5InputElement(substring(text, offset)))

ApplyJson5Identifier(offset) ==
    Apply("json5Identifier", offset, json5Identifier(substring(text, offset)))

ApplyJson5String(offset) ==
    Apply("json5String", offset, json5String(substring(text, offset)))

GrammarNext ==
    \/ \E offset \in 0..Len(text) : ApplyJson5InputElement(offset)
    \/ \E offset \in 0..Len(text) : ApplyJson5Identifier(offset)
    \/ \E offset \in 0..Len(text) : ApplyJson5String(offset)

\* The texts of the identifiers: at most MaxParts of the keywords, a keyword
\* in another case, a letter, a digit, a sign and a space.
IdentifierPieces ==
    {strTrue, strFalse, strNull, strInfinity, strNaN, <<84, 114, 117, 101>>,
     <<108>>, <<49>>, <<minus>>, <<space>>}

InitIdentifiers == InitScanner(TextsOf(IdentifierPieces), {FALSE})

SpecIdentifiers == InitIdentifiers /\ [][GrammarNext]_vars

MaxStringParts == 2

\* What stands between the quotes of the string texts: letters, the
\* quotes, the backslash, what a backslash may and may not precede, the
\* line terminators and CR LF.
StringBodyPieces ==
    {<<97>>, <<110>>, <<doubleQuote>>, <<singleQuote>>, <<backslash>>,
     <<lineFeed>>, <<carriageReturn>>, <<lineSeparator>>, <<paragraphSeparator>>,
     <<carriageReturn, lineFeed>>, <<backslash, char0>>, <<49>>,
     <<backslash, 120>>, <<52, 49>>, <<backslash, 117>>, <<52, 49, 52, 49>>}

\* A quote, at most MaxStringParts pieces, and a quote of either kind or
\* none.
QuotedTexts ==
    {<<quote>> \o concat(parts) \o closing :
        quote \in {doubleQuote, singleQuote},
        parts \in UNION {[1..n -> StringBodyPieces] : n \in 0..MaxStringParts},
        closing \in {<<>>, <<doubleQuote>>, <<singleQuote>>}}

InitQuoted == InitScanner(QuotedTexts, {FALSE})

SpecQuoted == InitQuoted /\ [][GrammarNext]_vars

-----------------------------------------------------------------------------
(* The combinators of grammar.ts applied to scanners *)

\* The scanners the combinators are applied to, built with the functions of
\* grammar.ts: literal('a'), literalLineBreak('\n'), nothing,
\* withSyntaxKind(NullKeyword, nothing), and(literal('a'), literal('b')),
\* withSyntaxKind(TrueKeyword, and(literal('a'), literal('b'))) and
\* and(literalLineBreak('\n'), literal('b')).
Scanners ==
    {[name |-> "literal", text |-> <<97>>, syntaxKind |-> Unknown],
     [name |-> "literalLineBreak", text |-> <<lineFeed>>, syntaxKind |-> Unknown],
     [name |-> "nothing", text |-> <<>>, syntaxKind |-> Unknown],
     [name |-> "nothing", text |-> <<>>, syntaxKind |-> NullKeyword],
     [name |-> "and", text |-> <<97, 98>>, syntaxKind |-> Unknown],
     [name |-> "and", text |-> <<97, 98>>, syntaxKind |-> TrueKeyword],
     [name |-> "and", text |-> <<lineFeed, 98>>, syntaxKind |-> Unknown]}

\* The first Scanner of and: a literal, of a line break where it is one.
literalOf(c, input) ==
    IF c = lineFeed THEN literalLineBreak(<<c>>, input) ELSE literal(<<c>>, input)

\* scanner(input) for a scanner of Scanners.
Scanner(scanner, input) ==
    LET r == CASE scanner.name = "literal" -> literal(scanner.text, input)
               [] scanner.name = "literalLineBreak" ->
                      literalLineBreak(scanner.text, input)
               [] scanner.name = "nothing" -> nothing(input)
               [] scanner.name = "and" ->
                      combineAnd(LAMBDA x : literalOf(scanner.text[1], x),
                                 LAMBDA x : literal(<<scanner.text[2]>>, x), input)
    IN  IF scanner.syntaxKind = Unknown THEN r
        ELSE withSyntaxKind(scanner.syntaxKind, r)

\* and(s1, ..., sn) is scanners.reduce(combineAnd).
RECURSIVE and(_, _)
\* and, were the failure of a child returned as it is.
andLengthOfFailure(list, input) ==
    IF Len(list) = 1 THEN Scanner(list[1], input)
    ELSE LET firstResult == and(SubSeq(list, 1, Len(list) - 1), input)
         IN  IF isFailure(firstResult) THEN firstResult
             ELSE LET secondResult ==
                          Scanner(list[Len(list)],
                                  substring(input, firstResult.length))
                  IN  IF isFailure(secondResult) THEN secondResult
                      ELSE concatenate(firstResult, secondResult)

and(list, input) ==
    IF Len(list) = 1 THEN Scanner(list[1], input)
    ELSE combineAnd(LAMBDA x : and(SubSeq(list, 1, Len(list) - 1), x),
                    LAMBDA x : Scanner(list[Len(list)], x), input)

\* <<s1(input), ..., sn(input)>>
resultsOf(list, input) == [k \in 1..Len(list) |-> Scanner(list[k], input)]

\* A combinator is applied once to the text, with two scanners or more.
MaxScanners == 3

ScannerLists == UNION {[1..n -> Scanners] : n \in 2..MaxScanners}

ApplyTo(name, list, scanResult) ==
    /\ production = "none"
    /\ production' = name
    /\ scanners' = list
    /\ result' = scanResult
    /\ UNCHANGED <<text, ignoreTrivia, startOffset>>
    /\ UNCHANGED scannerVars
    /\ UNCHANGED parserVars

ApplyOr(list) == ApplyTo("or", list, or(resultsOf(list, text)))

ApplyLongest(list) == ApplyTo("longest", list, longest(resultsOf(list, text)))

ApplyAnd(list) == ApplyTo("and", list, and(list, text))

CombinatorNext ==
    \/ \E list \in ScannerLists : ApplyOr(list)
    \/ \E list \in ScannerLists : ApplyLongest(list)
    \/ \E list \in ScannerLists : ApplyAnd(list)

\* The inputs of the combinators: at most MaxParts of two letters and a
\* line feed.
CombinatorPieces == {<<97>>, <<98>>, <<lineFeed>>}

InitCombinators == InitScanner(TextsOf(CombinatorPieces), {FALSE})

SpecCombinators == InitCombinators /\ [][CombinatorNext]_vars

-----------------------------------------------------------------------------
(* The parser (impl/parser.ts is not among the sources; modelled after
   sections 4.4 to 4.7 of the specification and the tests of
   test/json.test.ts) *)

\* The tokens of a text: what the scanner of visit, created at position 0
\* without ignoreTrivia, returns scan() by scan(), the EOF token included.
tokenAt(st) ==
    [kind |-> st.token, offset |-> st.tokenOffset,
     length |-> st.pos - st.tokenOffset, value |-> st.value,
     error |-> st.scanError, startLine |-> st.lineStartOffset,
     startCharacter |-> st.tokenOffset - st.prevTokenLineStartOffset]

RECURSIVE tokensFrom(_, _)

tokensAfter(t, next) ==
    IF next.token = EOF \/ next.threw THEN <<tokenAt(next)>>
    ELSE <<tokenAt(next)>> \o tokensFrom(t, next)

tokensFrom(t, st) == tokensAfter(t, scanNext(t, st))

tokensOf(t) == tokensFrom(t, created)

\* The state of visit: the index of the current token of the scanner (0
\* before the first scan), the callbacks made so far, and the result of the
\* parse function that returned last.
visitStart == [i |-> 0, events |-> <<>>, ok |-> TRUE]

getToken(toks, p) == toks[p.i].kind

\* A callback of the visitor with the offset, the length, the start line and
\* the start character of the current token.  error is the ParseErrorCode of
\* onError; type and value are the first argument of the other callbacks.
callback(toks, p, id, error, type, val) ==
    [p EXCEPT !.events = Append(@,
        [id |-> id, error |-> error, type |-> type, value |-> val,
         offset |-> toks[p.i].offset, length |-> toks[p.i].length,
         startLine |-> toks[p.i].startLine,
         startCharacter |-> toks[p.i].startCharacter])]

onError(toks, p, error) == callback(toks, p, "onError", error, "error", <<>>)

\* scanNext of visit: scans until a token that is no trivia, forwards the
\* scan errors, and reports the comments (onComment, or InvalidCommentToken
\* with disallowComments) and the unknown tokens.
RECURSIVE visitScanNext(_, _, _)

\* As visitScanned, with the comments delivered to onComment whatever the
\* options.
visitScannedCommentsDelivered(toks, options, p) ==
    LET tok == toks[p.i]
        q == IF tok.error = UnexpectedEndOfString
             THEN onError(toks, p, "UnexpectedEndOfString")
             ELSE IF tok.error = UnexpectedEndOfComment /\ ~options.disallowComments
             THEN onError(toks, p, "UnexpectedEndOfComment")
             ELSE p
    IN  IF tok.kind \in {LineCommentTrivia, BlockCommentTrivia}
        THEN visitScanNext(toks, options,
                 callback(toks, q, "onComment", "", "comment", <<>>))
        ELSE IF tok.kind = Unknown
        THEN visitScanNext(toks, options, onError(toks, q, "InvalidSymbol"))
        ELSE IF tok.kind \in {Trivia, LineBreakTrivia}
        THEN visitScanNext(toks, options, q)
        ELSE q

visitScanned(toks, options, p) ==
    LET tok == toks[p.i]
        q == IF tok.error = UnexpectedEndOfString
             THEN onError(toks, p, "UnexpectedEndOfString")
             ELSE IF tok.error = UnexpectedEndOfComment /\ ~options.disallowComments
             THEN onError(toks, p, "UnexpectedEndOfComment")
             ELSE p
    IN  IF tok.kind \in {LineCommentTrivia, BlockCommentTrivia}
        THEN visitScanNext(toks, options,
                 IF options.disallowComments
                 THEN onError(toks, q, "InvalidCommentToken")
                 ELSE callback(toks, q, "onComment", "", "comment", <<>>))
        ELSE IF tok.kind = Unknown
        THEN visitScanNext(toks, options, onError(toks, q, "InvalidSymbol"))
        ELSE IF tok.kind \in {Trivia, LineBreakTrivia}
        THEN visitScanNext(toks, options, q)
        ELSE q

visitScanNext(toks, options, p) ==
    visitScanned(toks, options, [p EXCEPT !.i = Min(p.i + 1, Len(toks))])

\* The recovery of handleError: skips tokens until one of skipUntil is the
\* current token, or until one of skipUntilAfter has been passed, or EOF.
RECURSIVE skipTokens(_, _, _, _, _)
skipTokens(toks, options, p, skipUntilAfter, skipUntil) ==
    IF getToken(toks, p) = EOF THEN p
    ELSE IF getToken(toks, p) \in skipUntilAfter
    THEN visitScanNext(toks, options, p)
    ELSE IF getToken(toks, p) \in skipUntil THEN p
    ELSE skipTokens(toks, options, visitScanNext(toks, options, p),
                    skipUntilAfter, skipUntil)

handleError(toks, options, p, error, skipUntilAfter, skipUntil) ==
    IF skipUntilAfter \cup skipUntil = {} THEN onError(toks, p, error)
    ELSE skipTokens(toks, options, onError(toks, p, error),
                    skipUntilAfter, skipUntil)

returns(p, success) == [p EXCEPT !.ok = success]

\* parseString: a string as a value, or a property key.
parseString(toks, options, p, isValue) ==
    returns(visitScanNext(toks, options,
                IF isValue
                THEN callback(toks, p, "onLiteralValue", "", "string",
                              toks[p.i].value)
                ELSE callback(toks, p, "onObjectProperty", "", "string",
                              toks[p.i].value)),
            TRUE)

literalType(kind) ==
    IF kind \in {NumericLiteral, InfinityKeyword, NaNKeyword} THEN "number"
    ELSE IF kind = NullKeyword THEN "null"
    ELSE "boolean"

\* parseLiteral: a number, Infinity, NaN, null, true or false.
parseLiteral(toks, options, p) ==
    IF getToken(toks, p) \in {NumericLiteral, InfinityKeyword, NaNKeyword,
                              NullKeyword, TrueKeyword, FalseKeyword}
    THEN returns(visitScanNext(toks, options,
                     callback(toks, p, "onLiteralValue", "",
                              literalType(getToken(toks, p)), toks[p.i].value)),
                 TRUE)
    ELSE returns(p, FALSE)

RECURSIVE parseValue(_, _, _)

\* A missing value after ':' or ',' is reported as ValueExpected and the
\* tokens up to the follow set are skipped.
valueExpected(toks, options, p, follow) ==
    IF p.ok THEN p
    ELSE returns(handleError(toks, options, p, "ValueExpected", {}, follow), FALSE)

\* After a missing colon the parser goes on as if it were present; without
\* a value at the offender it resynchronises at the follow set and reports
\* no second error.
afterMissingColon(toks, options, p, follow) ==
    IF p.ok THEN p ELSE skipTokens(toks, options, p, {}, follow)

\* property := propertyKey ':' value, after the key.
parsePropertyValue(toks, options, p) ==
    IF getToken(toks, p) = ColonToken
    THEN valueExpected(toks, options,
             parseValue(toks, options,
                 visitScanNext(toks, options,
                     callback(toks, p, "onSeparator", "", "separator", <<colon>>))),
             {CloseBraceToken, CommaToken})
    ELSE afterMissingColon(toks, options,
             parseValue(toks, options, onError(toks, p, "ColonExpected")),
             {CloseBraceToken, CommaToken})

\* The tokens of a property key: a string or an identifier, which the
\* scanner may report as the keyword it spells.
propertyKeyKinds ==
    {StringLiteral, Identifier, TrueKeyword, FalseKeyword, NullKeyword,
     InfinityKeyword, NaNKeyword}

\* propertyKey := String | Identifier
parseProperty(toks, options, p) ==
    IF getToken(toks, p) \notin propertyKeyKinds
    THEN returns(handleError(toks, options, p, "PropertyNameExpected", {},
                             {CloseBraceToken, CommaToken}), FALSE)
    ELSE returns(parsePropertyValue(toks, options,
                     parseString(toks, options, p, FALSE)), TRUE)

\* The elements of an object or an array up to the closing token or EOF.
\* isObject tells the properties of an object from the values of an array,
\* needsComma whether an element came before.
RECURSIVE parseElements(_, _, _, _, _)

closeToken(isObject) == IF isObject THEN CloseBraceToken ELSE CloseBracketToken

parseElement(toks, options, p, isObject) ==
    parseElements(toks, options,
        valueExpected(toks, options,
            IF isObject THEN parseProperty(toks, options, p)
            ELSE parseValue(toks, options, p),
            {closeToken(isObject), CommaToken}),
        isObject, TRUE)

\* As parseAfterComma, with an element required after every comma.
parseAfterCommaElementRequired(toks, options, p, isObject) ==
    parseElement(toks, options, p, isObject)

\* After a comma: a closing token right behind it ends the elements
\* (trailing comma).
parseAfterComma(toks, options, p, isObject) ==
    IF getToken(toks, p) = closeToken(isObject) THEN p
    ELSE parseElement(toks, options, p, isObject)

\* As parseElements, with the element after a missing comma skipped.
parseElementsSkippedAfterError(toks, options, p, isObject, needsComma) ==
    IF getToken(toks, p) \in {closeToken(isObject), EOF} THEN p
    ELSE IF getToken(toks, p) = CommaToken
    THEN parseAfterComma(toks, options,
             visitScanNext(toks, options,
                 callback(toks,
                          IF needsComma THEN p
                          ELSE onError(toks, p, "ValueExpected"),
                          "onSeparator", "", "separator", <<comma>>)),
             isObject)
    ELSE IF needsComma
    THEN parseElements(toks, options,
             handleError(toks, options, p, "CommaExpected", {},
                         {closeToken(isObject), CommaToken}),
             isObject, TRUE)
    ELSE parseElement(toks, options, p, isObject)

parseElements(toks, options, p, isObject, needsComma) ==
    IF getToken(toks, p) \in {closeToken(isObject), EOF} THEN p
    ELSE IF getToken(toks, p) = CommaToken
    THEN parseAfterComma(toks, options,
             visitScanNext(toks, options,
                 callback(toks,
                          IF needsComma THEN p
                          ELSE onError(toks, p, "ValueExpected"),
                          "onSeparator", "", "separator", <<comma>>)),
             isObject)
    ELSE parseElement(toks, options,
             IF needsComma THEN onError(toks, p, "CommaExpected") ELSE p,
             isObject)

\* The end of an object or an array: onObjectEnd or onArrayEnd at the
\* current token, which is the closing token or, at EOF, reported missing.
\* As parseEnd, with no error for a closing token that is missing.
parseEndNotReported(toks, options, p, isObject) ==
    returns(
        IF getToken(toks, p) # closeToken(isObject) THEN p
        ELSE visitScanNext(toks, options, p),
        TRUE)

parseEnd(toks, options, p, isObject) ==
    returns(
        IF getToken(toks, p) # closeToken(isObject)
        THEN handleError(toks, options, p,
                 IF isObject THEN "CloseBraceExpected" ELSE "CloseBracketExpected",
                 {closeToken(isObject)}, {})
        ELSE visitScanNext(toks, options, p),
        TRUE)

endCallback(toks, p, isObject) ==
    callback(toks, p, IF isObject THEN "onObjectEnd" ELSE "onArrayEnd",
             "", "end", <<>>)

\* object := '{' (property (',' property)* ','?)? '}'
parseObject(toks, options, p) ==
    parseEnd(toks, options,
        endCallback(toks,
            parseElements(toks, options,
                visitScanNext(toks, options,
                    callback(toks, p, "onObjectBegin", "", "begin", <<>>)),
                TRUE, FALSE),
            TRUE),
        TRUE)

\* parseArray, were onArrayEnd called after the closing bracket was scanned.
parseArrayEndAfterClose(toks, options, p) ==
    endCallback(toks,
        parseEnd(toks, options,
            parseElements(toks, options,
                visitScanNext(toks, options,
                    callback(toks, p, "onArrayBegin", "", "begin", <<>>)),
                FALSE, FALSE),
            FALSE),
        FALSE)

\* array := '[' (value (',' value)* ','?)? ']'
parseArray(toks, options, p) ==
    parseEnd(toks, options,
        endCallback(toks,
            parseElements(toks, options,
                visitScanNext(toks, options,
                    callback(toks, p, "onArrayBegin", "", "begin", <<>>)),
                FALSE, FALSE),
            FALSE),
        FALSE)

\* value := object | array | literal
parseValue(toks, options, p) ==
    IF getToken(toks, p) = OpenBracketToken THEN parseArray(toks, options, p)
    ELSE IF getToken(toks, p) = OpenBraceToken THEN parseObject(toks, options, p)
    ELSE IF getToken(toks, p) = StringLiteral
    THEN parseString(toks, options, p, TRUE)
    ELSE parseLiteral(toks, options, p)

\* document := value EOF, after the value.
visitEnd(toks, options, p) ==
    IF ~p.ok THEN handleError(toks, options, p, "ValueExpected", {}, {})
    ELSE IF getToken(toks, p) # EOF
    THEN handleError(toks, options, p, "EndOfFileExpected", {}, {})
    ELSE p

visitDocument(toks, options, p) ==
    IF getToken(toks, p) = EOF
    THEN IF options.allowEmptyContent THEN p
         ELSE handleError(toks, options, p, "ValueExpected", {}, {})
    ELSE visitEnd(toks, options, parseValue(toks, options, p))

\* visit(text, visitor, options): the callbacks of the visitor in the order
\* of the calls.
visitTokens(toks, options) ==
    visitDocument(toks, options, visitScanNext(toks, options, visitStart)).events

visit(t, options) == visitTokens(tokensOf(t), options)

\* The errors a parser entry point collects: the onError callbacks as
\* {error, offset, length}.
errorOf(e) == [error |-> e.error, offset |-> e.offset, length |-> e.length]

errorsOf(evs) ==
    LET collect[k \in 0..Len(evs)] ==
            IF k = 0 THEN <<>>
            ELSE IF evs[k].id = "onError" THEN Append(collect[k - 1], errorOf(evs[k]))
            ELSE collect[k - 1]
    IN  collect[Len(evs)]

\* The values parse builds: literals with their type and value, arrays with
\* their items, objects with their properties (a key and one item each).
undefinedValue == [type |-> "undefined", value |-> <<>>, items |-> <<>>]

containerValue(type, items) == [type |-> type, value |-> <<>>, items |-> items]

\* object[key] = v: a later occurrence of a key overwrites the earlier one.
assignProperty(items, key, v) ==
    IF \E k \in 1..Len(items) : items[k].value = key
    THEN [k \in 1..Len(items) |->
             IF items[k].value = key THEN [items[k] EXCEPT !.items = <<v>>]
             ELSE items[k]]
    ELSE Append(items, [type |-> "property", value |-> key, items |-> <<v>>])

\* The stack of the containers in progress, the innermost last; below all
\* of them the array that receives the top-level value.
parseStart ==
    <<[type |-> "array", items |-> <<>>, key |-> <<>>, hasKey |-> FALSE]>>

\* onValue of parse: into the current container, at the remembered key or
\* at the next index.
parseOnValue(stack, v) ==
    IF stack[Len(stack)].type = "array"
    THEN [stack EXCEPT ![Len(stack)].items = Append(@, v)]
    ELSE IF stack[Len(stack)].hasKey
    THEN [stack EXCEPT ![Len(stack)].items =
                           assignProperty(@, stack[Len(stack)].key, v)]
    ELSE stack

parseOnEvent(stack, e) ==
    IF e.id = "onObjectBegin"
    THEN Append(stack, [type |-> "object", items |-> <<>>, key |-> <<>>,
                        hasKey |-> FALSE])
    ELSE IF e.id = "onArrayBegin"
    THEN Append(stack, [type |-> "array", items |-> <<>>, key |-> <<>>,
                        hasKey |-> FALSE])
    ELSE IF e.id = "onObjectProperty"
    THEN [stack EXCEPT ![Len(stack)].key = e.value, ![Len(stack)].hasKey = TRUE]
    ELSE IF e.id \in {"onObjectEnd", "onArrayEnd"}
    THEN parseOnValue(SubSeq(stack, 1, Len(stack) - 1),
                      containerValue(stack[Len(stack)].type,
                                     stack[Len(stack)].items))
    ELSE IF e.id = "onLiteralValue"
    THEN parseOnValue(stack, [type |-> e.type, value |-> e.value, items |-> <<>>])
    ELSE stack

parseEvents(evs) ==
    LET stackAfter[k \in 0..Len(evs)] ==
            IF k = 0 THEN parseStart ELSE parseOnEvent(stackAfter[k - 1], evs[k])
    IN  stackAfter[Len(evs)]

topLevelValue(stack) ==
    IF stack[1].items = <<>> THEN undefinedValue ELSE stack[1].items[1]

\* What parse leaves: the top-level value, and the errors in its second
\* argument.
parsed(evs) == [value |-> topLevelValue(parseEvents(evs)), errors |-> errorsOf(evs)]

\* parse(text, errors, options)
parse(t, options) == parsed(visit(t, options))

\* The nodes of parseTree, kept in the order of their creation; parent and
\* children are positions in that order (0: no parent).  colonOffset is -1
\* while no colon has been seen, length is -1 while a container is open.
newNode(type, offset, length, parent, val) ==
    [type |-> type, offset |-> offset, length |-> length, colonOffset |-> -1,
     parent |-> parent, children |-> <<>>, value |-> val]

\* The array that receives the top-level value; it is the root of the tree
\* of a text without a value.
treeStart ==
    [nodes |-> <<newNode("array", 0, 0, 0, <<>>)>>, currentParent |-> 1]

\* As ensurePropertyComplete, with the end of the property as its length.
ensurePropertyCompleteLengthIsEnd(b, endOffset) ==
    IF b.nodes[b.currentParent].type = "property"
    THEN [nodes |-> [b.nodes EXCEPT ![b.currentParent].length = endOffset],
          currentParent |-> b.nodes[b.currentParent].parent]
    ELSE b

\* A property is complete at the end of its value, at the comma after it or
\* at the end of its object.
ensurePropertyComplete(b, endOffset) ==
    IF b.nodes[b.currentParent].type = "property"
    THEN [nodes |-> [b.nodes EXCEPT ![b.currentParent].length =
                                        endOffset - b.nodes[b.currentParent].offset],
          currentParent |-> b.nodes[b.currentParent].parent]
    ELSE b

\* onValue of parseTree: the node becomes the last child of the current
\* parent.
treeOnValue(b, type, offset, length, val) ==
    [b EXCEPT !.nodes =
        Append([@ EXCEPT ![b.currentParent].children = Append(@, Len(b.nodes) + 1)],
               newNode(type, offset, length, b.currentParent, val))]

enter(b) == [b EXCEPT !.currentParent = Len(b.nodes)]

\* The end of a container: an open property ends with it, the container is
\* closed, and the property it is the value of is complete.
treeOnEnd(b, endOffset) ==
    [nodes |-> [b.nodes EXCEPT ![b.currentParent].length =
                                   endOffset - b.nodes[b.currentParent].offset],
     currentParent |-> b.nodes[b.currentParent].parent]

treeOnSeparator(b, e) ==
    IF b.nodes[b.currentParent].type # "property" THEN b
    ELSE IF e.value = <<colon>>
    THEN [b EXCEPT !.nodes[b.currentParent].colonOffset = e.offset]
    ELSE IF e.value = <<comma>> THEN ensurePropertyComplete(b, e.offset)
    ELSE b

\* As treeOnEvent, with a property without value left open at the end of
\* its object.
treeOnEventPropertyLeftOpen(b, e) ==
    IF e.id = "onObjectBegin"
    THEN enter(treeOnValue(b, "object", e.offset, -1, <<>>))
    ELSE IF e.id = "onArrayBegin"
    THEN enter(treeOnValue(b, "array", e.offset, -1, <<>>))
    ELSE IF e.id = "onObjectProperty"
    THEN treeOnValue(enter(treeOnValue(b, "property", e.offset, -1, <<>>)),
                     "string", e.offset, e.length, e.value)
    ELSE IF e.id \in {"onObjectEnd", "onArrayEnd"}
    THEN ensurePropertyComplete(treeOnEnd(b, e.offset + e.length),
                                e.offset + e.length)
    ELSE IF e.id = "onLiteralValue"
    THEN ensurePropertyComplete(
             treeOnValue(b, e.type, e.offset, e.length, e.value),
             e.offset + e.length)
    ELSE IF e.id = "onSeparator" THEN treeOnSeparator(b, e)
    ELSE b

treeOnEvent(b, e) ==
    IF e.id = "onObjectBegin"
    THEN enter(treeOnValue(b, "object", e.offset, -1, <<>>))
    ELSE IF e.id = "onArrayBegin"
    THEN enter(treeOnValue(b, "array", e.offset, -1, <<>>))
    ELSE IF e.id = "onObjectProperty"
    THEN treeOnValue(enter(treeOnValue(b, "property", e.offset, -1, <<>>)),
                     "string", e.offset, e.length, e.value)
    ELSE IF e.id = "onObjectEnd"
    THEN ensurePropertyComplete(
             treeOnEnd(ensurePropertyComplete(b, e.offset + e.length),
                       e.offset + e.length),
             e.offset + e.length)
    ELSE IF e.id = "onArrayEnd"
    THEN ensurePropertyComplete(treeOnEnd(b, e.offset + e.length),
                                e.offset + e.length)
    ELSE IF e.id = "onLiteralValue"
    THEN ensurePropertyComplete(
             treeOnValue(b, e.type, e.offset, e.length, e.value),
             e.offset + e.length)
    ELSE IF e.id = "onSeparator" THEN treeOnSeparator(b, e)
    ELSE b

treeEvents(evs) ==
    LET builderAfter[k \in 0..Len(evs)] ==
            IF k = 0 THEN treeStart ELSE treeOnEvent(builderAfter[k - 1], evs[k])
    IN  builderAfter[Len(evs)]

\* The root: the top-level value without its parent, or the array around it
\* when the text has no value.
rootOf(b) ==
    IF b.nodes[1].children = <<>>
    THEN [nodes |-> b.nodes, root |-> 1]
    ELSE [nodes |-> [b.nodes EXCEPT ![b.nodes[1].children[1]].parent = 0],
          root |-> b.nodes[1].children[1]]

\* What parseTree leaves: the tree, and the errors in its second argument.
parsedTree(evs) == [tree |-> rootOf(treeEvents(evs)), errors |-> errorsOf(evs)]

\* parseTree(text, errors, options)
parseTree(t, options) == parsedTree(visit(t, options))

\* The segments of a path: a property name or an index into an array.
nameSegment(name) == [isIndex |-> FALSE, index |-> 0, name |-> name]

indexSegment(index) == [isIndex |-> TRUE, index |-> index, name |-> <<>>]

\* children.indexOf(node), counted from 0
indexOfChild(children, n) ==
    (CHOOSE k \in 1..Len(children) : children[k] = n) - 1

\* getNodePath(node): from the root down, the key of each property and the
\* index in each array on the way to the node.
RECURSIVE getNodePath(_, _)
getNodePath(tr, n) ==
    IF tr.nodes[n].parent = 0 THEN <<>>
    ELSE IF tr.nodes[tr.nodes[n].parent].type = "property"
    THEN Append(getNodePath(tr, tr.nodes[n].parent),
                nameSegment(tr.nodes[tr.nodes[tr.nodes[n].parent].children[1]].value))
    ELSE IF tr.nodes[tr.nodes[n].parent].type = "array"
    THEN Append(getNodePath(tr, tr.nodes[n].parent),
                indexSegment(indexOfChild(tr.nodes[tr.nodes[n].parent].children, n)))
    ELSE getNodePath(tr, tr.nodes[n].parent)

\* The properties of an object that have the key and a value.
propertiesNamed(tr, n, name) ==
    {k \in 1..Len(tr.nodes[n].children) :
        /\ Len(tr.nodes[tr.nodes[n].children[k]].children) = 2
        /\ tr.nodes[tr.nodes[tr.nodes[n].children[k]].children[1]].value = name}

Minimum(S) == CHOOSE k \in S : \A other \in S : k <= other

\* As findSegment, with the indices of an array counted from 1.
findSegmentIndexFromOne(tr, n, segment) ==
    IF n = 0 THEN 0
    ELSE IF ~segment.isIndex
    THEN IF tr.nodes[n].type # "object" \/ propertiesNamed(tr, n, segment.name) = {}
         THEN 0
         ELSE tr.nodes[tr.nodes[n].children[
                  Minimum(propertiesNamed(tr, n, segment.name))]].children[2]
    ELSE IF tr.nodes[n].type # "array" \/ segment.index < 1
            \/ segment.index > Len(tr.nodes[n].children)
    THEN 0
    ELSE tr.nodes[n].children[segment.index]

\* One step of findNodeAtLocation from the node n; 0 is undefined.
findSegment(tr, n, segment) ==
    IF n = 0 THEN 0
    ELSE IF ~segment.isIndex
    THEN IF tr.nodes[n].type # "object" \/ propertiesNamed(tr, n, segment.name) = {}
         THEN 0
         ELSE tr.nodes[tr.nodes[n].children[
                  Minimum(propertiesNamed(tr, n, segment.name))]].children[2]
    ELSE IF tr.nodes[n].type # "array" \/ segment.index < 0
            \/ segment.index >= Len(tr.nodes[n].children)
    THEN 0
    ELSE tr.nodes[n].children[segment.index + 1]

\* findNodeAtLocation(root, path): the node the path leads to, walked from
\* the root; 0 is undefined.
findNodeAtLocation(tr, path) ==
    LET nodeAfter[k \in 0..Len(path)] ==
            IF k = 0 THEN tr.root ELSE findSegment(tr, nodeAfter[k - 1], path[k])
    IN  nodeAfter[Len(path)]

\* The nodes of the tree: those below the root, and the root.
RECURSIVE isInTree(_, _)
isInTree(tr, n) ==
    \/ n = tr.root
    \/ tr.nodes[n].parent # 0 /\ isInTree(tr, tr.nodes[n].parent)

nodesOf(tr) == {n \in 1..Len(tr.nodes) : isInTree(tr, n)}

-----------------------------------------------------------------------------
(* The entry points of the parser called on a text *)

MaxParserParts == 4

\* The texts made of at most MaxParserParts of the given pieces.
ParserTextsOf(pieces) ==
    {concat(parts) : parts \in UNION {[1..n -> pieces] : n \in 0..MaxParserParts}}

\* The options of the call; allowEmptyContent keeps its default.
options == [disallowComments |-> disallowComments, allowEmptyContent |-> FALSE]

\* An entry point is called once on the text.
Called(name) ==
    /\ called = "none"
    /\ called' = name
    /\ UNCHANGED <<text, ignoreTrivia, disallowComments>>
    /\ UNCHANGED grammarVars
    /\ UNCHANGED scannerVars

\* visit(text, visitor, options)
VisitCalls(evs) ==
    /\ Called("visit")
    /\ events' = evs
    /\ errors' = errorsOf(evs)
    /\ UNCHANGED <<parsedValue, tree>>

Visit == VisitCalls(visit(text, options))

\* parse(text, errors, options)
ParseReturns(outcome) ==
    /\ Called("parse")
    /\ parsedValue' = outcome.value
    /\ errors' = outcome.errors
    /\ UNCHANGED <<events, tree>>

Parse == ParseReturns(parse(text, options))

\* parseTree(text, errors, options)
ParseTreeReturns(outcome) ==
    /\ Called("parseTree")
    /\ tree' = outcome.tree
    /\ errors' = outcome.errors
    /\ UNCHANGED <<events, parsedValue>>

ParseTree == ParseTreeReturns(parseTree(text, options))

ParserNext ==
    \/ Visit
    \/ Parse
    \/ ParseTree

\* The texts of the containers: the brackets, the comma, a number and a
\* property.
ParserPieces ==
    {<<openBrace>>, <<closeBrace>>, <<openBracket>>, <<closeBracket>>,
     <<comma>>, <<49>>, <<doubleQuote, 97, doubleQuote, colon, 49>>}

InitParser == InitOptions(ParserTextsOf(ParserPieces), {FALSE}, {FALSE})

SpecParser == InitParser /\ [][ParserNext]_vars

\* The texts without separators of their own: the brackets, a string, a
\* number and a property.
SeparatorPieces ==
    {<<openBrace>>, <<closeBrace>>, <<openBracket>>, <<closeBracket>>,
     <<doubleQuote, 97, doubleQuote>>, <<49>>,
     <<doubleQuote, 97, doubleQuote, colon, 49>>}

InitSeparators == InitOptions(ParserTextsOf(SeparatorPieces), {FALSE}, {FALSE})

SpecSeparators == InitSeparators /\ [][ParserNext]_vars

\* The texts of the properties: the braces, an opening bracket, the
\* separators, a key and a number.
PropertyPieces ==
    {<<openBrace>>, <<closeBrace>>, <<openBracket>>, <<closeBracket>>,
     <<comma>>, <<colon>>, <<doubleQuote, 97, doubleQuote>>, <<49>>}

InitProperties == InitOptions(ParserTextsOf(PropertyPieces), {FALSE}, {FALSE})

SpecProperties == InitProperties /\ [][ParserNext]_vars

\* The texts with comments, visited with disallowComments: the brackets, a
\* number, a block comment, the start of a line comment, the end of a line
\* and the start of a block comment.
ParserCommentPieces ==
    {<<openBracket>>, <<closeBracket>>, <<49>>,
     <<slash, asterisk, asterisk, slash>>, <<slash, slash>>, <<lineFeed>>,
     <<slash, asterisk>>}

InitParserComments ==
    InitOptions(ParserTextsOf(ParserCommentPieces), {FALSE}, {TRUE})

SpecParserComments == InitParserComments /\ [][ParserNext]_vars

\* The texts of the callbacks: the brackets, the comma, a property, a number
\* and a block comment, visited with comments allowed.
CallbackPieces ==
    {<<openBrace>>, <<closeBrace>>, <<openBracket>>, <<closeBracket>>,
     <<comma>>, <<doubleQuote, 97, doubleQuote, colon, 49>>,
     <<slash, asterisk, asterisk, slash>>}

InitCallbacks == InitOptions(ParserTextsOf(CallbackPieces), {FALSE}, {FALSE})

SpecCallbacks == InitCallbacks /\ [][ParserNext]_vars

\* The keys of the texts of the properties: strings in double and in single
\* quotes, identifiers and the keywords, numbers.
QuotedKeys == {<<doubleQuote, 97, doubleQuote>>, <<singleQuote, 97, singleQuote>>}

IdentifierKeys == {<<97>>, strTrue, strFalse, strNull, strInfinity, strNaN}

NumericKeys == {<<49>>, <<plus>> \o strInfinity}

PropertyKeys == QuotedKeys \cup IdentifierKeys \cup NumericKeys

\* The objects of one property and of two properties with these keys.
PropertyKeyTexts ==
    {<<openBrace>> \o key \o <<colon, 49, closeBrace>> : key \in PropertyKeys}
    \cup {<<openBrace>> \o key[1] \o <<colon, 49, comma>> \o key[2]
              \o <<colon, 49, closeBrace>> : key \in PropertyKeys \X PropertyKeys}

InitPropertyKeys == InitOptions(PropertyKeyTexts, {FALSE}, {FALSE})

SpecPropertyKeys == InitPropertyKeys /\ [][ParserNext]_vars

-----------------------------------------------------------------------------
(* Properties of scan() and setPosition() *)

SyntaxKinds == Unknown..Trivia

ScanErrors == {None, UnexpectedEndOfComment, UnexpectedEndOfString}

RECURSIVE closingQuote(_, _, _)
closingQuote(t, quote, i) ==
    IF i >= Len(t) THEN -1
    ELSE IF t[i + 1] = quote THEN i
    ELSE IF t[i + 1] \in {lineFeed, carriageReturn} THEN -1
    ELSE IF t[i + 1] = backslash
    THEN IF i + 2 < Len(t) /\ t[i + 2] = carriageReturn /\ t[i + 3] = lineFeed
         THEN closingQuote(t, quote, i + 3)
         ELSE closingQuote(t, quote, i + 2)
    ELSE closingQuote(t, quote, i + 1)

\* C2: when scan() starts at a quote and no unescaped quote of the same kind
\* follows before the end of the text or an unescaped LF or CR, it returns a
\* StringLiteral with the scan error UnexpectedEndOfString (and json5String
\* fails there); a string returned without a scan error ends at the first
\* unescaped quote of the kind that opened it, never at the other kind.
C2_UnterminatedString ==
    (lastOp = "scan" /\ tokenOffset < Len(text)
       /\ text[tokenOffset + 1] \in {doubleQuote, singleQuote}) =>
        LET quote == text[tokenOffset + 1]
            close == closingQuote(text, quote, tokenOffset + 1)
        IN  /\ ~threw
            /\ token = StringLiteral
            /\ close = -1 =>
                  /\ scanError = UnexpectedEndOfString
                  /\ isFailure(json5String(substring(text, tokenOffset)))
            /\ scanError = None =>
                  /\ close # -1
                  /\ pos = close + 1
                  /\ text[pos] = quote

\* A string opened by a double quote holds a single quote and no closing
\* double quote: scan() returned it as an unterminated string.
C2_Witness ==
    /\ lastOp = "scan"
    /\ ~threw
    /\ token = StringLiteral
    /\ scanError = UnexpectedEndOfString
    /\ text[tokenOffset + 1] = doubleQuote
    /\ \E i \in (tokenOffset + 2)..pos : text[i] = singleQuote

\* The offset right after the first */ that starts two code units or more
\* after offset o, or -1 when there is none.
firstCommentEnd(t, o) ==
    LET closings == {i \in (o + 2)..(Len(t) - 2) :
                        t[i + 1] = asterisk /\ t[i + 2] = slash}
    IN  IF closings = {} THEN -1
        ELSE 2 + CHOOSE i \in closings : \A j \in closings : i <= j

\* C3: a block comment scanned from its /* ends right after the first */
\* that starts at index 2 or later; it is one BlockCommentTrivia token
\* without a scan error whose value is the comment (multiLineComment matches
\* the same length).  Without such a */ the token is still
\* BlockCommentTrivia, runs to the end of the text and carries
\* UnexpectedEndOfComment.
C3_BlockComment ==
    (lastOp = "scan" /\ tokenOffset + 1 < Len(text)
       /\ text[tokenOffset + 1] = slash /\ text[tokenOffset + 2] = asterisk) =>
        LET end == firstCommentEnd(text, tokenOffset)
            matched == multiLineComment(substring(text, tokenOffset))
        IN  /\ ~threw
            /\ token = BlockCommentTrivia
            /\ end # -1 =>
                  /\ pos = end
                  /\ scanError = None
                  /\ value = SubSeq(text, tokenOffset + 1, end)
                  /\ isSuccess(matched)
                  /\ matched.length = end - tokenOffset
            /\ end = -1 =>
                  /\ pos = Len(text)
                  /\ scanError = UnexpectedEndOfComment
                  /\ isFailure(matched)

\* scan() returned the comment /* **/ whole and without a scan error.
C3_Witness ==
    /\ lastOp = "scan"
    /\ token = BlockCommentTrivia
    /\ scanError = None
    /\ value = <<slash, asterisk, space, asterisk, asterisk, slash>>
    /\ pos - tokenOffset = 6

\* C4: when no JSON5 input element matches at the position scan() starts
\* from, scan() advances by exactly one code unit, returns Unknown and sets
\* the token value to that code unit, however much the failing production
\* had consumed.  The positions that open a string or a comment, whose
\* failures are reported as an unterminated string or comment, are left out.
C4_PerCharacterResync ==
    (/\ lastOp = "scan" /\ ~threw /\ ~ignoreTrivia
     /\ startPos < Len(text)
     /\ isFailure(json5InputElement(substring(text, startPos)))
     /\ text[startPos + 1] \notin {doubleQuote, singleQuote}
     /\ ~(/\ text[startPos + 1] = slash
          /\ charCodeAt(text, startPos + 1) \in {slash, asterisk})) =>
        /\ pos = startPos + 1
        /\ token = Unknown
        /\ value = <<text[startPos + 1]>>

\* scan() was called at a sign followed by a dot, where no input element
\* matches.
C4_Witness ==
    /\ lastOp = "scan" /\ ~threw /\ ~ignoreTrivia
    /\ startPos + 1 < Len(text)
    /\ text[startPos + 1] = minus /\ text[startPos + 2] = dot
    /\ isFailure(json5InputElement(substring(text, startPos)))

\* C9: when scan() is called with the position at or past the end of the
\* text, the empty text included, it returns EOF, the token offset is the
\* length of the text and the token length is 0.
C9_EndOfText ==
    (lastOp = "scan" /\ ~threw /\ startPos >= Len(text)) =>
        /\ token = EOF
        /\ tokenOffset = Len(text)
        /\ pos - tokenOffset = 0

\* scan() was called with the position past the end of a text.
C9_Witness ==
    /\ lastOp = "scan" /\ ~threw
    /\ startPos > Len(text)
    /\ token = EOF

TriviaKinds == {LineCommentTrivia, BlockCommentTrivia, LineBreakTrivia, Trivia}

\* The first n tokens that are no trivia among those a scanner that does not
\* ignore trivia returns from the state st on, scan() by scan().
RECURSIVE withoutTrivia(_, _, _)
withoutTrivia(t, st, n) ==
    IF n = 0 THEN <<>>
    ELSE LET next == scanNext(t, st)
         IN  IF next.threw THEN <<>>
             ELSE IF next.token \in TriviaKinds THEN withoutTrivia(t, next, n)
             ELSE <<tokenOf(next)>> \o withoutTrivia(t, next, n - 1)

\* C10: a scanner created with ignoreTrivia = true never returns a line
\* comment, a block comment, a line break or white space, and the tokens it
\* returns (kind, offset, length, value, scan error) are those a scanner
\* with ignoreTrivia = false returns on the same text, less these four kinds.
C10_IgnoreTrivia ==
    (ignoreTrivia /\ setPositions = 0) =>
        /\ \A i \in 1..Len(returned) : returned[i].kind \notin TriviaKinds
        /\ returned = withoutTrivia(text, created, Len(returned))

\* scan() skipped trivia between two tokens it returned.
C10_Witness ==
    /\ ignoreTrivia /\ setPositions = 0
    /\ Len(returned) >= 2
    /\ returned[2].offset > returned[1].offset + returned[1].length
    /\ returned[2].kind # EOF

(* The complete JSON5 numbers, after the grammar of JSON5: a numeric       *)
(* literal of ECMAScript 5.1, Infinity or NaN, with an optional sign.      *)

isDecimalDigits(s) ==
    Len(s) >= 1 /\ \A i \in 1..Len(s) : s[i] \in char0..char9

isHexDigits(s) ==
    Len(s) >= 1 /\ \A i \in 1..Len(s) : s[i] \in char0..char9 \cup 97..102 \cup 65..70

isDecimalIntegerLiteral(s) ==
    \/ s = <<char0>>
    \/ isDecimalDigits(s) /\ s[1] # char0

isExponentPart(s) ==
    /\ Len(s) >= 2
    /\ s[1] \in {101, 69}
    /\ \/ isDecimalDigits(Tail(s))
       \/ s[2] \in {plus, minus} /\ isDecimalDigits(Tail(Tail(s)))

\* DecimalIntegerLiteral . DecimalDigits(opt), . DecimalDigits or
\* DecimalIntegerLiteral, before the optional exponent
isMantissa(s) ==
    \/ isDecimalIntegerLiteral(s)
    \/ \E k \in 1..Len(s) :
          /\ s[k] = dot
          /\ IF k = 1 THEN isDecimalDigits(Tail(s))
             ELSE /\ isDecimalIntegerLiteral(SubSeq(s, 1, k - 1))
                  /\ k = Len(s) \/ isDecimalDigits(SubSeq(s, k + 1, Len(s)))

isDecimalLiteral(s) ==
    \E k \in 1..Len(s) :
        /\ isMantissa(SubSeq(s, 1, k))
        /\ k = Len(s) \/ isExponentPart(SubSeq(s, k + 1, Len(s)))

isHexIntegerLiteral(s) ==
    /\ Len(s) >= 3
    /\ s[1] = char0 /\ s[2] \in {120, 88}
    /\ isHexDigits(SubSeq(s, 3, Len(s)))

isJSON5NumericLiteral(s) ==
    \/ isDecimalLiteral(s) \/ isHexIntegerLiteral(s)
    \/ s = strInfinity \/ s = strNaN

isJSON5Number(s) ==
    \/ isJSON5NumericLiteral(s)
    \/ Len(s) >= 2 /\ s[1] \in {plus, minus} /\ isJSON5NumericLiteral(Tail(s))

\* The length of the longest prefix of the input that is a complete number,
\* 0 when no prefix is.
longestNumber(input) ==
    LET lengths == {k \in 0..Len(input) : k = 0 \/ isJSON5Number(SubSeq(input, 1, k))}
    IN  CHOOSE k \in lengths : \A j \in lengths : j <= k

\* C5: scan() at a sign, a dot or a decimal digit returns a NumericLiteral
\* that covers exactly the longest prefix that is a complete JSON5 number
\* (json5Number matches the same length); when no prefix is a complete
\* number the token is Unknown, and it holds no code unit at which a
\* complete number starts, so that a number after it is a token of its own.
C5_LongestNumber ==
    (/\ lastOp = "scan" /\ ~threw /\ tokenOffset < Len(text)
     /\ text[tokenOffset + 1] \in {plus, minus, dot} \cup char0..char9) =>
        LET rest == substring(text, tokenOffset)
            n == longestNumber(rest)
            matched == json5Number(rest)
        IN  /\ n > 0 =>
                  /\ token = NumericLiteral
                  /\ pos = tokenOffset + n
                  /\ value = prefix(rest, n)
                  /\ scanError = None
                  /\ isSuccess(matched) /\ matched.length = n
            /\ n = 0 =>
                  /\ token = Unknown
                  /\ pos > tokenOffset
                  /\ isFailure(matched)
                  /\ \A i \in (tokenOffset + 1)..(pos - 1) :
                        longestNumber(substring(text, i)) = 0

\* scan() returned the number -0 and then the digit after it as a number of
\* its own, as for -01.
C5_Witness ==
    /\ lastOp = "scan" /\ ~threw
    /\ Len(returned) >= 2
    /\ returned[1].kind = NumericLiteral
    /\ returned[1].value = <<minus, char0>>
    /\ returned[2].kind = NumericLiteral
    /\ returned[2].offset = 2

\* C8: scan() at a LF, at a CR that no LF follows, at a CR LF, at U+2028
\* or at U+2029 returns exactly one LineBreakTrivia token that counts as
\* one line break; a CR with a LF right after it is one token of length 2,
\* every other line break a token of length 1 (lineTerminatorSequence
\* matches the same).
C8_LineBreak ==
    (/\ lastOp = "scan" /\ ~threw /\ tokenOffset < Len(text)
     /\ text[tokenOffset + 1] \in {lineFeed, carriageReturn, lineSeparator,
                                   paragraphSeparator}) =>
        LET rest == substring(text, tokenOffset)
            n == IF rest[1] = carriageReturn /\ charCodeAt(rest, 1) = lineFeed
                 THEN 2 ELSE 1
            matched == lineTerminatorSequence(rest)
        IN  /\ token = LineBreakTrivia
            /\ pos = tokenOffset + n
            /\ value = prefix(rest, n)
            /\ scanError = None
            /\ lineNumber = lineStartOffset + 1
            /\ tokenLineStartOffset = pos
            /\ isSuccess(matched)
            /\ matched.length = n
            /\ matched.lineBreaksCount = 1

\* scan() returned a line break and then, as one token, the CR LF after it.
C8_Witness ==
    /\ lastOp = "scan"
    /\ token = LineBreakTrivia
    /\ value = <<carriageReturn, lineFeed>>
    /\ Len(returned) >= 2
    /\ returned[Len(returned) - 1].kind = LineBreakTrivia
    /\ returned[Len(returned) - 1].value \in {<<lineFeed>>, <<carriageReturn>>,
                                              <<paragraphSeparator>>}

-----------------------------------------------------------------------------
(* Properties of the productions of grammar.ts *)

isIdentifierStartCharacter(ch) == patternLetter(ch) \/ ch = 36 \/ ch = 95

isIdentifierPartCharacter(ch) ==
    \/ isIdentifierStartCharacter(ch)
    \/ patternCombiningMark(ch) \/ patternNd(ch) \/ patternPc(ch)
    \/ ch = 8204 \/ ch = 8205

\* The length of the maximal identifier the input starts with, 0 when it
\* starts with none (for inputs without an escaped identifier character).
identifierLength(input) ==
    IF input = <<>> \/ ~isIdentifierStartCharacter(input[1]) THEN 0
    ELSE CHOOSE k \in 1..Len(input) :
            /\ \A i \in 2..k : isIdentifierPartCharacter(input[i])
            /\ k = Len(input) \/ ~isIdentifierPartCharacter(input[k + 1])

keywordKind(word) ==
    IF word = strTrue THEN TrueKeyword
    ELSE IF word = strFalse THEN FalseKeyword
    ELSE IF word = strNull THEN NullKeyword
    ELSE IF word = strInfinity THEN InfinityKeyword
    ELSE IF word = strNaN THEN NaNKeyword
    ELSE Identifier

isHexDigitCharacter(ch) == ch \in char0..char9 \cup 97..102 \cup 65..70

\* The length of the string that the input, which starts with the quote,
\* holds from its first code unit on, read from offset i: the offset after
\* the first unescaped quote, provided what precedes it is made of code
\* units other than LF, CR and a backslash, and of backslashes followed by
\* what the JSON5 strings allow after them; -1 otherwise.
RECURSIVE stringEnd(_, _, _)
stringEnd(input, quote, i) ==
    LET ch == charCodeAt(input, i)
        next == charCodeAt(input, i + 1)
        hex(from, count) ==
            \A k \in from..(from + count - 1) : isHexDigitCharacter(charCodeAt(input, k))
    IN  IF i >= Len(input) THEN -1
        ELSE IF ch = quote THEN i + 1
        ELSE IF ch \in {lineFeed, carriageReturn} THEN -1
        ELSE IF ch # backslash THEN stringEnd(input, quote, i + 1)
        ELSE IF i + 1 >= Len(input) THEN -1
        ELSE IF next = carriageReturn /\ charCodeAt(input, i + 2) = lineFeed
        THEN stringEnd(input, quote, i + 3)
        ELSE IF next = char0
        THEN IF charCodeAt(input, i + 2) \in char0..char9 THEN -1
             ELSE stringEnd(input, quote, i + 2)
        ELSE IF next \in 49..57 THEN -1
        ELSE IF next = 120
        THEN IF hex(i + 2, 2) THEN stringEnd(input, quote, i + 4) ELSE -1
        ELSE IF next = 117
        THEN IF hex(i + 2, 4) THEN stringEnd(input, quote, i + 6) ELSE -1
        ELSE stringEnd(input, quote, i + 2)

\* C7: json5String accepts what starts with a quote exactly when, up to the
\* next unescaped quote of that kind, every backslash is followed by a
\* single escape character, a 0 not followed by a decimal digit, x and two
\* hex digits, u and four hex digits, a line terminator sequence, or any
\* other code unit that is no decimal digit, and no unescaped LF or CR
\* occurs; U+2028 and U+2029 are accepted unescaped.  It then matches up to
\* that quote.
C7_StringAccepted ==
    (production = "json5String" /\ startOffset < Len(text)
       /\ text[startOffset + 1] \in {doubleQuote, singleQuote}) =>
        LET rest == substring(text, startOffset)
            end == stringEnd(rest, rest[1], 1)
        IN  /\ isSuccess(result) <=> end # -1
            /\ isSuccess(result) => result.length = end

\* json5String accepted a string that holds a hex escape.
C7_Witness ==
    /\ production = "json5String"
    /\ isSuccess(result)
    /\ result.length = 6
    /\ charCodeAt(text, startOffset + 1) = backslash
    /\ charCodeAt(text, startOffset + 2) = 120

-----------------------------------------------------------------------------
(* Lines and columns of the tokens *)

\* A line terminator sequence ends with the e-th code unit of t: a LF, a
\* U+2028, a U+2029, or a CR that no LF follows.
endsLineTerminatorSequence(t, e) ==
    \/ t[e] \in {lineFeed, lineSeparator, paragraphSeparator}
    \/ (t[e] = carriageReturn /\ charCodeAt(t, e) # lineFeed)

\* The end offsets of the line terminator sequences of t that end at or
\* before the offset o.
lineTerminatorEnds(t, o) ==
    {e \in 1..Min(o, Len(t)) : endsLineTerminatorSequence(t, e)}

lastLineTerminatorEnd(t, o) ==
    IF lineTerminatorEnds(t, o) = {} THEN 0
    ELSE CHOOSE e \in lineTerminatorEnds(t, o) :
             \A other \in lineTerminatorEnds(t, o) : other <= e

\* C11: as long as the text is scanned from position 0 without
\* setPosition, the start line of the token scan() returned is the number
\* of line terminator sequences (LF, lone CR, CR LF, U+2028, U+2029) that
\* end at or before the offset of the token, those inside block comments
\* and line continuations included, and its start character is its offset
\* minus the end offset of the last of them (minus 0 without one).
C11_StartLineAndCharacter ==
    (lastOp = "scan" /\ ~threw /\ setPositions = 0) =>
        /\ getTokenStartLine = Cardinality(lineTerminatorEnds(text, tokenOffset))
        /\ getTokenStartCharacter =
               tokenOffset - lastLineTerminatorEnd(text, tokenOffset)

\* scan() returned a block comment with a line break inside and then a
\* token on the second line, behind the first column.
C11_Witness ==
    /\ lastOp = "scan" /\ ~threw /\ setPositions = 0
    /\ Len(returned) >= 2
    /\ returned[Len(returned) - 1].kind = BlockCommentTrivia
    /\ \E i \in 1..Len(returned[Len(returned) - 1].value) :
           returned[Len(returned) - 1].value[i] = lineFeed
    /\ getTokenStartLine = 1
    /\ getTokenStartCharacter = 2

\* C12: after any scan() and setPosition() calls, the start character of
\* the token scan() returned last, tokenOffset - prevTokenLineStartOffset,
\* is at least 0.
C12_StartCharacterNonNegative ==
    (lastOp = "scan" /\ ~threw) => getTokenStartCharacter >= 0

\* scan() returned a token after the scanner was moved back to a position
\* before a line break it had scanned.
C12_Witness ==
    /\ lastOp = "scan" /\ ~threw
    /\ setPositions = 1
    /\ lineNumber >= 1
    /\ tokenOffset < tokenLineStartOffset
    /\ token # EOF

\* C13: a token that scan() reported at offset o with length l is scanned
\* again by setPosition(o) and scan() on the same scanner: same kind, same
\* value, same scan error, same offset and length.
C13_Rescan ==
    (lastOp = "scan" /\ ~threw) =>
        LET again == scan(text, ignoreTrivia, setPosition(this, tokenOffset))
        IN  /\ ~again.threw
            /\ tokenOf(again) = tokenOf(this)

\* scan() returned a string with an escape after the scanner had been
\* moved to another position.
C13_Witness ==
    /\ lastOp = "scan" /\ ~threw
    /\ setPositions = 1
    /\ token = StringLiteral
    /\ scanError = None
    /\ value = <<lineFeed>>

-----------------------------------------------------------------------------
(* Commas, colons and the end of the text in the parser *)

withoutCharacter(t, k) == SubSeq(t, 1, k - 1) \o SubSeq(t, k + 1, Len(t))

\* A comma at k after the end of an element and before a closing bracket.
isTrailingComma(t, k) ==
    /\ 1 < k /\ k < Len(t) /\ t[k] = comma
    /\ t[k - 1] \in {49, doubleQuote, closeBracket, closeBrace}
    /\ t[k + 1] \in {closeBracket, closeBrace}

\* A comma at k right after an opening bracket or after another comma.
isCommaWithoutElement(t, k) ==
    /\ 1 < k /\ t[k] = comma
    /\ t[k - 1] \in {openBracket, openBrace, comma}

trailingCommaAdds(without) ==
    without.errors = <<>> => errors = <<>> /\ parsedValue = without.value

commaWithoutElementAdds(without) ==
    without.errors = <<>> => errors # <<>> /\ parsedValue = without.value

\* C14: in a text that has no error without the comma, a comma between the
\* last element and the closing bracket gives no error and the same value; a
\* comma right after an opening bracket or after another comma gives at
\* least one error and the same value, every element in its place.
C14_Commas ==
    called = "parse" =>
        \A k \in 1..Len(text) :
            /\ isTrailingComma(text, k) =>
                   trailingCommaAdds(parse(withoutCharacter(text, k), options))
            /\ isCommaWithoutElement(text, k) =>
                   commaWithoutElementAdds(parse(withoutCharacter(text, k), options))

C14_Witness ==
    /\ called = "parse"
    /\ text = <<openBracket, 49, comma, closeBracket>>
    /\ errors = <<>>
    /\ parsedValue.items = <<[type |-> "number", value |-> <<49>>, items |-> <<>>]>>

withCharacter(t, k, c) == SubSeq(t, 1, k - 1) \o <<c>> \o SubSeq(t, k, Len(t))

\* The token that starts at the character k of the text.
tokenFoundAt(t, k) == tokenOf(scanNext(t, setPosition(created, k - 1)))

\* The one error of a missing separator: at the token found in its place.
separatorExpected(error, found) ==
    <<[error |-> error, offset |-> found.offset, length |-> found.length]>>

\* A comma is missing before the character k: an element ends right before
\* it, another one starts at it, and the two are two tokens.
isElementAfterElement(t, k) ==
    /\ 1 < k /\ k <= Len(t)
    /\ t[k - 1] \in {49, doubleQuote, closeBracket, closeBrace}
    /\ t[k] \in {49, doubleQuote, openBracket, openBrace}
    /\ ~(t[k - 1] = 49 /\ t[k] = 49)

\* A colon is missing before the character k: a string ends right before it
\* and a value starts at it.
isValueAfterString(t, k) ==
    /\ 1 < k /\ k <= Len(t)
    /\ t[k - 1] = doubleQuote
    /\ t[k] \in {49, doubleQuote, openBracket, openBrace}

separatorMissing(error, found, present) ==
    present.errors = <<>> =>
        /\ errors = separatorExpected(error, found)
        /\ parsedValue = present.value

C15_WitnessComma ==
    /\ called = "parse"
    /\ text = <<openBracket, 49, doubleQuote, 97, doubleQuote, closeBracket>>
    /\ errors = <<[error |-> "CommaExpected", offset |-> 2, length |-> 3]>>
    /\ Len(parsedValue.items) = 2

\* The open brackets after one more character, the innermost last; <<0>>
\* when a closing bracket does not match.
openAfter(open, c) ==
    IF open = <<0>> THEN <<0>>
    ELSE IF c \in {openBrace, openBracket} THEN Append(open, c)
    ELSE IF c \in {closeBrace, closeBracket}
    THEN IF open # <<>>
            /\ open[Len(open)] = (IF c = closeBrace THEN openBrace ELSE openBracket)
         THEN SubSeq(open, 1, Len(open) - 1)
         ELSE <<0>>
    ELSE open

\* The brackets of the text that are open after its first k characters.
RECURSIVE openBrackets(_, _)
openBrackets(t, k) ==
    IF k = 0 THEN <<>> ELSE openAfter(openBrackets(t, k - 1), t[k])

\* The closing brackets of the open ones, the innermost first.
closing(open) ==
    [k \in 1..Len(open) |->
        IF open[Len(open) + 1 - k] = openBrace THEN closeBrace ELSE closeBracket]

count(s, c) == Cardinality({k \in 1..Len(s) : s[k] = c})

countErrors(errs, error) == Cardinality({k \in 1..Len(errs) : errs[k].error = error})

\* The text is a text without error cut before the closing brackets of the
\* containers that are open at its end.
reachesEOFWith(open, completed) ==
    open # <<>> /\ open # <<0>> /\ completed.errors = <<>>

closeExpectedFor(open) ==
    /\ countErrors(errors, "CloseBraceExpected") = count(open, openBrace)
    /\ countErrors(errors, "CloseBracketExpected") = count(open, openBracket)

unclosed(open) ==
    reachesEOFWith(open, parse(text \o closing(open), options))
        => closeExpectedFor(open)

-----------------------------------------------------------------------------
(* The tree of parseTree *)

node(n) == tree.nodes[n]

endOf(n) == node(n).offset + node(n).length

keyOf(n) == node(n).children[1]

countEvents(evs, id) == Cardinality({k \in 1..Len(evs) : evs[k].id = id})

propertyNodes == {n \in nodesOf(tree) : node(n).type = "property"}

\* The last property of an object, when it has no value.
lastPropertiesWithoutValue ==
    {n \in propertyNodes :
        /\ Len(node(n).children) < 2
        /\ node(node(n).parent).children[Len(node(node(n).parent).children)] = n}

everyPropertyIsEmitted(evs) ==
    Cardinality(propertyNodes) = countEvents(evs, "onObjectProperty")

C18_Spans ==
    called = "parseTree" =>
        \A n \in nodesOf(tree) :
            /\ node(n).offset >= 0
            /\ node(n).length >= 0
            /\ endOf(n) <= Len(text)
            /\ \A k \in 1..Len(node(n).children) :
                   /\ node(node(n).children[k]).parent = n
                   /\ node(n).offset <= node(node(n).children[k]).offset
                   /\ endOf(node(n).children[k]) <= endOf(n)

\* { "a" : [ is cut in the value of its property
C18_Witness ==
    /\ called = "parseTree"
    /\ text = <<openBrace, doubleQuote, 97, doubleQuote, colon, openBracket>>
    /\ nodesOf(tree) = 2..5
    /\ node(3).type = "property" /\ node(3).offset = 1 /\ node(3).length = 5
    /\ node(5).type = "array" /\ node(5).offset = 5 /\ node(5).length = 1
    /\ errors # <<>>

\* The paths of the check: at most MaxPathLength segments, each the key of
\* the properties or an index.
MaxPathLength == 3

Segments == {nameSegment(<<97>>), indexSegment(0), indexSegment(1)}

Paths == UNION {[1..n -> Segments] : n \in 0..MaxPathLength}

RECURSIVE isValueNode(_)
isValueNode(n) ==
    \/ n = tree.root
    \/ /\ node(n).parent # 0
       /\ node(node(n).parent).type = "array"
       /\ isValueNode(node(n).parent)
    \/ /\ node(n).parent # 0
       /\ node(node(n).parent).type = "property"
       /\ Len(node(node(n).parent).children) = 2
       /\ node(node(n).parent).children[2] = n
       /\ findSegment(tree, node(node(n).parent).parent,
                      nameSegment(node(keyOf(node(n).parent)).value)) = n
       /\ isValueNode(node(node(n).parent).parent)

-----------------------------------------------------------------------------
(* The comments of a text visited with disallowComments *)

allowingComments == [disallowComments |-> FALSE, allowEmptyContent |-> FALSE]

isInvalidCommentToken(e) == e.id = "onError" /\ e.error = "InvalidCommentToken"

isUnexpectedEndOfComment(e) == e.id = "onError" /\ e.error = "UnexpectedEndOfComment"

\* The offsets and lengths of the comments of the text, in their order.
commentsOf(toks) ==
    LET collect[k \in 0..Len(toks)] ==
            IF k = 0 THEN <<>>
            ELSE IF toks[k].kind \in {LineCommentTrivia, BlockCommentTrivia}
            THEN Append(collect[k - 1],
                        [offset |-> toks[k].offset, length |-> toks[k].length])
            ELSE collect[k - 1]
    IN  collect[Len(toks)]

\* The offsets and lengths of the InvalidCommentToken errors, in their order.
invalidCommentTokens(evs) ==
    LET collect[k \in 0..Len(evs)] ==
            IF k = 0 THEN <<>>
            ELSE IF isInvalidCommentToken(evs[k])
            THEN Append(collect[k - 1],
                        [offset |-> evs[k].offset, length |-> evs[k].length])
            ELSE collect[k - 1]
    IN  collect[Len(evs)]

\* The events but the onComment callbacks and the InvalidCommentToken errors.
otherEvents(evs) ==
    LET collect[k \in 0..Len(evs)] ==
            IF k = 0 THEN <<>>
            ELSE IF evs[k].id = "onComment" \/ isInvalidCommentToken(evs[k])
            THEN collect[k - 1]
            ELSE Append(collect[k - 1], evs[k])
    IN  collect[Len(evs)]

\* The events but the UnexpectedEndOfComment errors.
withoutUnexpectedEndOfComment(evs) ==
    LET collect[k \in 0..Len(evs)] ==
            IF k = 0 THEN <<>>
            ELSE IF isUnexpectedEndOfComment(evs[k]) THEN collect[k - 1]
            ELSE Append(collect[k - 1], evs[k])
    IN  collect[Len(evs)]

otherEventsOfClosedComments(evs) == withoutUnexpectedEndOfComment(otherEvents(evs))

oneErrorPerComment ==
    /\ invalidCommentTokens(events) = commentsOf(tokensOf(text))
    /\ countEvents(events, "onComment") = 0

commentCallbacks(evs) ==
    LET collect[k \in 0..Len(evs)] ==
            IF k = 0 THEN <<>>
            ELSE IF evs[k].id = "onComment"
            THEN Append(collect[k - 1],
                        [offset |-> evs[k].offset, length |-> evs[k].length])
            ELSE collect[k - 1]
    IN  collect[Len(evs)]

\* The events of the text visited with disallowComments, against the events
\* of the same text visited with comments allowed.
disallowedAgainst(allowed) ==
    /\ invalidCommentTokens(events) = commentCallbacks(allowed)
    /\ errorsOf(withoutUnexpectedEndOfComment(allowed)) = <<>> =>
           commentCallbacks(allowed) = commentsOf(tokensOf(text))
    /\ countEvents(events, "onComment") = 0
    /\ otherEvents(events) = otherEventsOfClosedComments(allowed)
    /\ \A k \in 1..Len(events) : ~isUnexpectedEndOfComment(events[k])

-----------------------------------------------------------------------------
(* The keys of the properties *)

numberOne == [type |-> "number", value |-> <<49>>, items |-> <<>>]

propertyOf(name) == [type |-> "property", value |-> name, items |-> <<numberOne>>]

\* { key : 1 } and { key : 1 , other : 1 }
textOfProperty(key) == <<openBrace>> \o key \o <<colon, 49, closeBrace>>

textOfProperties(key, other) ==
    <<openBrace>> \o key \o <<colon, 49, comma>> \o other \o <<colon, 49, closeBrace>>

\* The name a key stands for: the string without its quotes, the identifier.
nameOfKey(key) ==
    IF key \in QuotedKeys THEN SubSeq(key, 2, Len(key) - 1) ELSE key

\* C21: a property with a double-quoted, a single-quoted or an identifier
\* key, the keywords included, parses without error into its property; a
\* property with a number as its key gives an error and is left out of the
\* object, the property after it is kept.
C21_PropertyKeys ==
    called = "parse" =>
        /\ \A key \in QuotedKeys \cup IdentifierKeys :
               text = textOfProperty(key) =>
                   /\ errors = <<>>
                   /\ parsedValue.items = <<propertyOf(nameOfKey(key))>>
        /\ \A key \in NumericKeys :
               /\ text = textOfProperty(key) =>
                      errors # <<>> /\ parsedValue.items = <<>>
               /\ text = textOfProperties(key, <<doubleQuote, 97, doubleQuote>>) =>
                      errors # <<>> /\ parsedValue.items = <<propertyOf(<<97>>)>>

\* { a : 1 }: the scanner reports the identifier as an Unknown token.
C21_Witness ==
    /\ called = "parse"
    /\ text = textOfProperty(<<97>>)
    /\ errors[1] = [error |-> "InvalidSymbol", offset |-> 1, length |-> 1]
    /\ parsedValue.items = <<>>

-----------------------------------------------------------------------------
(* The order of the callbacks of visit *)

\* The callbacks of a visit but onError, in the order of their calls.
structuralCallbacks(evs) ==
    LET collect[k \in 0..Len(evs)] ==
            IF k = 0 THEN <<>>
            ELSE IF evs[k].id = "onError" THEN collect[k - 1]
            ELSE Append(collect[k - 1], evs[k])
    IN collect[Len(evs)]

strictlyIncreasing(calls) ==
    \A k \in 1..Len(calls) - 1 : calls[k].offset < calls[k + 1].offset

neverDecreasing(calls) ==
    \A k \in 1..Len(calls) - 1 : calls[k].offset <= calls[k + 1].offset

\* The callbacks that close a container, and those among them called at the
\* end of the text for a container that was not closed.
isEnd(e) == e.id \in {"onObjectEnd", "onArrayEnd"}

\* Two callbacks in a row with the same offset: the second one is the end
\* of a container called with a token that is not its closing bracket.
sameOffsetOnlyAtMissingClose(calls) ==
    \A k \in 1..Len(calls) - 1 :
        calls[k].offset = calls[k + 1].offset =>
            /\ isEnd(calls[k + 1])
            /\ errors # <<>>

-----------------------------------------------------------------------------
(* The combinators or, longest and and *)

\* What the scanners of the combinator returned on the input.
results == resultsOf(scanners, text)

succeeding(rs) == {k \in 1..Len(rs) : isSuccess(rs[k])}

Maximum(S) == CHOOSE m \in S : \A n \in S : n <= m

\* Those of the results at the indexes S that have the greatest length.
greatestLength(rs, S) ==
    {k \in S : \A j \in S : rs[j].length <= rs[k].length}

\* The failure with the greatest length, the first of them.
greatestFailure(rs) == rs[Minimum(greatestLength(rs, 1..Len(rs)))]

\* C23: or(s1, ..., sn) returns the result of the first alternative that
\* succeeds; if none succeeds, the failure with the greatest length, and
\* among failures of equal greatest length the one listed first.
C23_Or ==
    production = "or" =>
        result = IF succeeding(results) # {}
                 THEN results[Minimum(succeeding(results))]
                 ELSE greatestFailure(results)

\* The first alternative fails, the two after it succeed with results
\* that differ: the second is returned.
C23_Witness ==
    /\ production = "or" /\ Len(scanners) = 3
    /\ ~isSuccess(results[1]) /\ isSuccess(results[2]) /\ isSuccess(results[3])
    /\ results[2] # results[3]
    /\ result = results[2]

\* The three alternatives fail, the last two with the same length and
\* results that differ, the first with a smaller length.
C23_WitnessFailures ==
    /\ production = "or" /\ Len(scanners) = 3
    /\ succeeding(results) = {}
    /\ results[1].length < results[2].length
    /\ results[2].length = results[3].length /\ results[2] # results[3]
    /\ result = results[2]

\* C24: longest(s1, ..., sn) returns a success whenever an alternative
\* succeeds, the one of the greatest length among the successes and the
\* last of them among those of equal greatest length, even if a failure
\* covers more input; when all alternatives fail it returns the failure
\* with the greatest length, the first of them.
C24_Longest ==
    production = "longest" =>
        result = IF succeeding(results) # {}
                 THEN results[Maximum(greatestLength(results, succeeding(results)))]
                 ELSE greatestFailure(results)

\* Two successes of the same length and a failure that covers more input.
C24_Witness ==
    /\ production = "longest" /\ Len(scanners) = 3
    /\ \E i, j, k \in 1..3 :
           /\ i < j
           /\ isSuccess(results[i]) /\ isSuccess(results[j])
           /\ results[i].length = results[j].length /\ results[i] # results[j]
           /\ isFailure(results[k]) /\ results[k].length > results[j].length
           /\ result = results[j]

\* The children of and on the input that remains after the children before
\* them: their offsets and their results, whether a child before failed or
\* not.
offsetOf(list, input) ==
    LET offset[k \in 1..Len(list)] ==
            IF k = 1 THEN 0
            ELSE offset[k - 1]
                     + Scanner(list[k - 1], substring(input, offset[k - 1])).length
    IN  offset

childResults(list, input) ==
    [k \in 1..Len(list) |->
        Scanner(list[k], substring(input, offsetOf(list, input)[k]))]

failing(rs) == {k \in 1..Len(rs) : isFailure(rs[k])}

\* The children that matched: all of them, or those before the first one
\* that failed.
matched(rs) ==
    IF failing(rs) = {} THEN 1..Len(rs) ELSE 1..(Minimum(failing(rs)) - 1)

RECURSIVE sumOf(_, _)
sumOf(f, S) ==
    IF S = {} THEN 0
    ELSE LET k == CHOOSE k \in S : TRUE IN f[k] + sumOf(f, S \ {k})

lengths(rs) == [k \in 1..Len(rs) |-> rs[k].length]

lineBreaksCounts(rs) == [k \in 1..Len(rs) |-> rs[k].lineBreaksCount]

children == childResults(scanners, text)

\* C25: and(s1, ..., sn) applies its children left to right, each to the
\* input that remains after the children before it; it succeeds iff every
\* child succeeds, with the sum of their lengths; if child k is the first
\* to fail, the result is the failure of child k with the lengths of the
\* children before it added to its length, whatever the children after k
\* are.
C25_And ==
    production = "and" =>
        /\ isSuccess(result) <=> failing(children) = {}
        /\ isSuccess(result) =>
               result.length = sumOf(lengths(children), 1..Len(children))
        /\ isFailure(result) =>
               LET k == Minimum(failing(children))
               IN  result = [children[k] EXCEPT
                                !.length = sumOf(lengths(children), 1..k)]

\* and(literal('a'), and(literal('a'), literal('b')), nothing) on "aaa":
\* the second child fails with length 1 behind the first, the failure has
\* length 2.
C25_Witness ==
    /\ production = "and" /\ Len(scanners) = 3
    /\ text = <<97, 97, 97>>
    /\ children[1] = Result(TRUE, 1, 0, 0, Unknown)
    /\ children[2] = Result(FALSE, 1, 0, 0, Unknown)
    /\ result = Result(FALSE, 2, 0, 0, Unknown)

C25_WitnessSuccess ==
    /\ production = "and" /\ Len(scanners) = 3
    /\ \A k \in 1..3 : isSuccess(children[k]) /\ children[k].length > 0
    /\ result.length = Len(text)

\* The children that matched with a line break.
withLineBreaks(rs) == {k \in matched(rs) : rs[k].lineBreaksCount > 0}

\* The offset just past the last line break of the children that matched,
\* from the start of the input.
lastLineBreakEnd(list, input, rs) ==
    IF withLineBreaks(rs) = {} THEN 0
    ELSE LET k == Maximum(withLineBreaks(rs))
         IN  offsetOf(list, input)[k] + rs[k].lengthToEndOfLastLineBreak

\* C26: whether and(s1, ..., sn) succeeds or fails after children matched,
\* lineBreaksCount is the sum of the lineBreaksCount of the children that
\* matched and lengthToEndOfLastLineBreak is the offset just past the last
\* of their line breaks, from the start of the input.
C26_LineBreaks ==
    production = "and" =>
        /\ result.lineBreaksCount
               = sumOf(lineBreaksCounts(children), matched(children))
        /\ result.lengthToEndOfLastLineBreak
               = lastLineBreakEnd(scanners, text, children)

\* The counters of a success of and are those sums.
C26_LineBreaksOfSuccess ==
    production = "and" /\ isSuccess(result) =>
        /\ result.lineBreaksCount
               = sumOf(lineBreaksCounts(children), matched(children))
        /\ result.lengthToEndOfLastLineBreak
               = lastLineBreakEnd(scanners, text, children)

\* and(literalLineBreak('\n'), literal('a')) on "\nb": the line break
\* matched, the failure has length 1 and no line break.
C26_Witness ==
    /\ production = "and" /\ Len(scanners) = 2
    /\ text = <<lineFeed, 98>>
    /\ children[1] = Result(TRUE, 1, 1, 1, Unknown)
    /\ isFailure(children[2])
    /\ result = Result(FALSE, 1, 0, 0, Unknown)

\* C27: when two scanners succeed in sequence, the syntaxKind of the
\* success is that of the first if the second matched the empty string,
\* that of the second if only the first matched the empty string, and
\* Unknown if both matched input.
C27_SyntaxKind ==
    production = "and" /\ Len(scanners) = 2 /\ failing(children) = {} =>
        result.syntaxKind
            = IF children[2].length = 0 THEN children[1].syntaxKind
              ELSE IF children[1].length = 0 THEN children[2].syntaxKind
              ELSE Unknown

\* withSyntaxKind(NullKeyword, nothing) before
\* withSyntaxKind(TrueKeyword, and(literal('a'), literal('b'))): the kind
\* is TrueKeyword.
C27_Witness ==
    /\ production = "and" /\ Len(scanners) = 2
    /\ children[1] = Result(TRUE, 0, 0, 0, NullKeyword)
    /\ children[2] = Result(TRUE, 2, 0, 0, TrueKeyword)
    /\ result.syntaxKind = TrueKeyword

\* The same scanner before nothing, and before literal('a').
C27_WitnessFirst ==
    /\ production = "and" /\ Len(scanners) = 2
    /\ children[1] = Result(TRUE, 2, 0, 0, TrueKeyword)
    /\ children[2] = Result(TRUE, 0, 0, 0, Unknown)
    /\ result.syntaxKind = TrueKeyword

C27_WitnessBoth ==
    /\ production = "and" /\ Len(scanners) = 2
    /\ children[1] = Result(TRUE, 2, 0, 0, TrueKeyword)
    /\ children[2] = Result(TRUE, 1, 0, 0, Unknown)
    /\ result.syntaxKind = Unknown

-----------------------------------------------------------------------------
(* The tokens of a text scanned from its start *)

\* The tokens scan() returned, one after the other from position 0, by a
\* scanner that was created without ignoreTrivia and never repositioned.
scannedFromStart == setPositions = 0 /\ ~ignoreTrivia

endOfToken(tok) == tok.offset + tok.length

\* C28: the tokens scanned from position 0 without ignoreTrivia tile the
\* text: the first starts at offset 0, each starts where the one before it
\* ended, every token but EOF has a length of 1 at least, and EOF is
\* reported at offset Len(text), after Len(text) other tokens at most.
C28_Tiling ==
    scannedFromStart =>
        \A k \in 1..Len(returned) :
            /\ returned[k].offset
                   = IF k = 1 THEN 0 ELSE endOfToken(returned[k - 1])
            /\ returned[k].kind # EOF =>
                   returned[k].length >= 1 /\ endOfToken(returned[k]) <= Len(text)
            /\ returned[k].kind = EOF =>
                   returned[k].offset = Len(text) /\ returned[k].length = 0
            /\ k > Len(text) => returned[k].kind = EOF

\* -.a : a number that fails after two code units, a letter, the end.
C28_Witness ==
    /\ scannedFromStart
    /\ text = <<minus, dot, 97>>
    /\ Len(returned) = 3
    /\ returned[1].kind = Unknown /\ returned[1].length = 2
    /\ returned[2].kind = Unknown /\ returned[2].offset = 2
    /\ returned[3].kind = EOF /\ returned[3].offset = 3

-----------------------------------------------------------------------------
(* The end of the text *)

\* The last call was a scan() that returned EOF.
atEOF == lastOp = "scan" /\ ~threw /\ token = EOF

\* C29: once scan() has returned EOF, a further scan() with no
\* setPosition() in between returns EOF again and leaves the position, the
\* token offset, the line number and the offsets of the line start as they
\* are.
C29_EOFAbsorbing ==
    [][atEOF /\ lastOp' = "scan" =>
           /\ token' = EOF /\ ~threw'
           /\ pos' = pos /\ tokenOffset' = tokenOffset
           /\ lineNumber' = lineNumber /\ lineStartOffset' = lineStartOffset
           /\ tokenLineStartOffset' = tokenLineStartOffset
           /\ prevTokenLineStartOffset' = prevTokenLineStartOffset]_vars

\* EOF was returned twice in a row at the end of a text of two lines.
C29_Witness ==
    /\ atEOF
    /\ Len(returned) >= 3
    /\ returned[Len(returned) - 1].kind = EOF
    /\ returned[Len(returned) - 2].kind # EOF
    /\ lineNumber = 1 /\ pos = Len(text)

-----------------------------------------------------------------------------
(* The line and the character of a token, whatever was scanned before *)

\* The start line and the start character the scanner reports for its
\* token are those a scanner that scans the text from its start, token by
\* token, reports for the token of the same kind at the same offset.
sameAsFromStart(firstPass) ==
    \A k \in 1..Len(firstPass) :
        firstPass[k].offset = tokenOffset /\ firstPass[k].kind = token =>
            /\ getTokenStartLine = firstPass[k].startLine
            /\ getTokenStartCharacter = firstPass[k].startCharacter

\* C30: the start line and the start character reported for the token at
\* an offset do not depend on the calls of scan() and setPosition() before
\* it; a token scanned again after setPosition() moved back reports the
\* line and the character of the first pass.
C30_LineAndCharacterOfOffset ==
    lastOp = "scan" /\ ~threw => sameAsFromStart(tokensOf(text))

\* a LF : both tokens are scanned, setPosition(0), and the letter scanned
\* again reports line 1 and character -2.
C30_Witness ==
    /\ text = <<97, lineFeed>>
    /\ lastOp = "scan" /\ setPositions = 1
    /\ token = Unknown /\ tokenOffset = 0
    /\ tokensOf(text)[1].startLine = 0 /\ tokensOf(text)[1].startCharacter = 0
    /\ getTokenStartLine = 1
    /\ getTokenStartCharacter = -2


====
